---- MODULE Spec2Model ----
(***************************************************************************)
(* Verification model of the sector engine's spatial simulation core:      *)
(* World (sector grid), Visibility (fog of war), Movement (collision       *)
(* solver) and EntityManager (spatial hash).                               *)
(*                                                                         *)
(* World coordinates are real numbers in the source.  The model keeps them *)
(* in fixed point: one grid cell is Unit model units, so Math.floor(x) is  *)
(* x \div Unit (floor division, also for negative x).                      *)
(***************************************************************************)
EXTENDS Integers, Sequences, FiniteSets, TLC

VARIABLES
  world,      \* the World object: width, height, defaultSector, grid, sectorTypes
  world2,     \* a second World object (the target of a deserialize), or NoWorld
  snapshot,   \* the object returned by World.serialize(), or NoData
  heap,       \* the row arrays of the grids: address -> array of sector keys
  origView,   \* history: getSector of every probe of `world` when serialize ran
  stage,      \* history: "live", "saved" (serialize ran), "loaded" (deserialize ran)
  ownGrid,    \* history: the grid of `world` as its own operations last left it
  touched2,   \* history: world2 was mutated through its own interface since it was loaded
  budget,     \* mutating calls still to come in the serialize / deserialize scenario
  discovered,        \* Visibility.discovered: set of cell keys
  currentlyVisible,  \* Visibility.currentlyVisible: set of cell keys
  totalWalkable,     \* Visibility.totalWalkable
  phase,             \* history: "fresh" (constructed or reset, nothing since),
                     \* "once" (exactly one update since), "updated" (an update
                     \* just returned), "other"
  ent,          \* the Entity objects: object -> its fields (made = constructed)
  nextId,       \* Entity.nextId
  entities,     \* EntityManager.entities: id -> object (a partial map)
  byType,       \* EntityManager.byType: type -> set of objects
  spatialHash,  \* EntityManager.spatialHash: cell key -> objects, in insertion order
  repositions,  \* history: how often the application has assigned a position
  lastOp,       \* history: "update" (EntityManager.update just returned),
                \* "remove" (a removal was just requested), "other"
  mover,        \* the entity handed to Movement.move: x, y, z, radius
  moveCall,     \* history: the last Movement.move call, its arguments and result
  query,        \* the last query made of Visibility or Movement: its name,
                \* arguments and result
  listeners,    \* World.listeners.sectorChanged: the callbacks, in order
  setCall,      \* history: the last World.setSector call, its arguments, the
                \* grid before it, its return value and the deliveries it made
  tick,         \* SectorEngine._fixedUpdate: where the running tick stands
                \* (pc), the input it read, the player's angle, and history:
                \* the calls the tick has made so far, in order
  loop,         \* SectorEngine's game loop: running, lastTime, accumulator,
                \* the requestAnimationFrame callbacks still pending, and
                \* history: what the last frame added and how often it ticked
  visEvent,     \* history: what the last observed Visibility.update handed to
                \* _emit('discovered', ...), Discovered before it, and the
                \* cells reported since construction or the last reset
  engineSave,   \* the object SectorEngine.serialize() returned, if any, and
                \* history: how often deserialize ran and in which tick last
  weapon,       \* a Weapon: id, cooldownRemaining, isJammed, isFunctional
  mech,         \* the mech it is mounted on: heat and the ammo count for the
                \* weapon (-1: no ammo entry)
  fireCall      \* history: the last Weapon.fire call, the state before it and
                \* what it returned

worldVars == <<world, world2, snapshot, heap, origView, stage, ownGrid, touched2, budget>>
visVars == <<discovered, currentlyVisible, totalWalkable, phase>>

entVars == <<ent, nextId, entities, byType, spatialHash, repositions, lastOp>>

moveVars == <<mover, moveCall, query>>

evtVars == <<listeners, setCall>>

tickVars == <<tick>>

\* The game loop of the application around the core, and what a listener of
\* the Visibility has observed.
mechVars == <<weapon, mech, fireCall>>

hostVars == <<loop, visEvent, engineSave, mechVars>>

vars == <<worldVars, visVars, entVars, moveVars, evtVars, tickVars, hostVars>>

\* A step of the World leaves the other objects alone.
OnlyWorld == UNCHANGED <<visVars, entVars, moveVars, evtVars, tickVars, hostVars>>

\* No SectorEngine is part of the scenario.
TickIdle == tick = [pc |-> "none"]

\* No mech and no weapon is part of the scenario.
MechIdle ==
  /\ weapon = [exists |-> FALSE]
  /\ mech = [exists |-> FALSE]
  /\ fireCall = [called |-> FALSE]

\* SectorEngine.serialize() has not run.
NoSave == [exists |-> FALSE, loads |-> 0, loadedAt |-> 0]

\* Nothing was handed to the listeners of the Visibility.
NoEvent == [emitted |-> FALSE, sectors |-> {}, before |-> {}, reported |-> {},
            again |-> FALSE]

\* No game loop is part of the scenario and no listener observes.
HostIdle ==
  /\ loop = [running |-> FALSE, pending |-> 0]
  /\ visEvent = NoEvent
  /\ engineSave = NoSave
  /\ MechIdle

\* No listener is subscribed to the World and no setSector call is recorded.
EvtIdle ==
  /\ listeners = <<>>
  /\ setCall = [called |-> FALSE]

\* No Entity and no EntityManager is part of the scenario.
EntIdle ==
  /\ ent = <<>>
  /\ nextId = 1
  /\ entities = <<>>
  /\ byType = <<>>
  /\ spatialHash = <<>>
  /\ repositions = 0
  /\ lastOp = "other"

\* No Movement is part of the scenario.
MoveIdle ==
  /\ mover = [exists |-> FALSE]
  /\ moveCall = [called |-> FALSE]
  /\ query = [op |-> "none"]

\* The Visibility object is not part of the scenario.
VisIdle ==
  /\ discovered = {}
  /\ currentlyVisible = {}
  /\ totalWalkable = 0
  /\ phase = "fresh"

(***************************************************************************)
(* Bounds and resolution                                                   *)
(***************************************************************************)
Unit == 10          \* model units per grid cell
GridW == 2          \* config.width of the worlds of the model
GridH == 2          \* config.height of the worlds of the model
Margin == 1         \* how many cells outside the grid the inputs reach
MaxSerOps == 3      \* mutating calls in one serialize / deserialize scenario
ViewDistance == 20  \* config.viewDistance of the Visibility of the model, in model units

\* Sector keys handed to registerSectorType / setSector / fillRect.
Keys == {"void", "floor"}

Max(a, b) == IF a >= b THEN a ELSE b
Min(a, b) == IF a <= b THEN a ELSE b

(***************************************************************************)
(* World                                                                   *)
(***************************************************************************)
\* A JavaScript `undefined` where a sector-type record is expected.
Undefined == [defined |-> FALSE]

NoWorld == [exists |-> FALSE]
NoData == [exists |-> FALSE]

\* The fields of a sector-type record that the simulation core reads.
Fields == {"floor", "walkable"}

\* registerSectorType's `defaults` literal.
defaults == [floor |-> 0, walkable |-> TRUE]

\* The definition _init registers under 'void'.
voidDefinition == [floor |-> -10, walkable |-> FALSE]

\* Map.get on a sector-type registry.
TypesGet(types, key) ==
  IF key \in DOMAIN types THEN types[key] ELSE Undefined

\* Map.set on a sector-type registry.
TypesSet(types, key, rec) ==
  [k \in (DOMAIN types) \cup {key} |-> IF k = key THEN rec ELSE types[k]]

\* { ...defaults, ...definition } tagged as a defined record.
MergedRecord(definition) ==
  [defined |-> TRUE,
   floor |-> IF "floor" \in DOMAIN definition THEN definition.floor ELSE defaults.floor,
   walkable |-> IF "walkable" \in DOMAIN definition
                THEN definition.walkable ELSE defaults.walkable]

\* World.registerSectorType(key, definition) on world record w.
registerSectorType(w, key, definition) ==
  [w EXCEPT !.sectorTypes = TypesSet(w.sectorTypes, key, MergedRecord(definition))]

\* The addresses of the row arrays that `owner` allocates.
RowsOf(owner, h) == [i \in 1..h |-> <<owner, i>>]

\* World constructor followed by _init: the world record (the rows it
\* allocates are written by NewWorldHeap).
NewWorld(owner, width, height, defaultSector) ==
  registerSectorType(
    [exists |-> TRUE, width |-> width, height |-> height,
     defaultSector |-> defaultSector,
     grid |-> RowsOf(owner, height),
     sectorTypes |-> [k \in {} |-> Undefined]],
    "void", voidDefinition)

\* _init's Array(height).fill(null).map(() => Array(width).fill(defaultSector)).
NewWorldHeap(h, owner, width, height, defaultSector) ==
  [a \in DOMAIN h |->
     IF a[1] = owner
     THEN (IF a[2] <= height THEN [i \in 1..width |-> defaultSector] ELSE <<>>)
     ELSE h[a]]

\* this.grid[gy][gx] read through the heap.
Cell(w, h, gx, gy) == h[w.grid[gy + 1]][gx + 1]

InBounds(w, gx, gy) == ~(gx < 0 \/ gx >= w.width \/ gy < 0 \/ gy >= w.height)

\* World.getSector(x, y); x and y in model units.
getSector(w, h, x, y) ==
  LET gx == x \div Unit
      gy == y \div Unit
  IN IF gx < 0 \/ gx >= w.width \/ gy < 0 \/ gy >= w.height
     THEN TypesGet(w.sectorTypes, w.defaultSector)
     ELSE LET key == Cell(w, h, gx, gy)
              rec == TypesGet(w.sectorTypes, key)
          IN IF rec.defined THEN rec ELSE TypesGet(w.sectorTypes, w.defaultSector)

\* World.getSectorKey(gx, gy).
getSectorKey(w, h, gx, gy) ==
  IF gx < 0 \/ gx >= w.width \/ gy < 0 \/ gy >= w.height
  THEN w.defaultSector
  ELSE Cell(w, h, gx, gy)

\* World.isWalkable(x, y) raises a TypeError when getSector returned undefined
\* (it reads .walkable of undefined).
isWalkableThrows(w, h, x, y) == ~getSector(w, h, x, y).defined

\* World.isWalkable(x, y): the value returned when it does not throw.
isWalkable(w, h, x, y) ==
  LET s == getSector(w, h, x, y)
  IN IF s.defined THEN s.walkable ELSE FALSE

\* Mutant of setSectorResult: the early return for an unchanged key is
\* missing, every in-bounds call reports a change.
setSectorResult_inBoundsOnly(w, h, gx, gy, sectorKey) ==
  IF gx < 0 \/ gx >= w.width \/ gy < 0 \/ gy >= w.height
  THEN FALSE
  ELSE TRUE

\* World.setSector: its return value.
setSectorResult(w, h, gx, gy, sectorKey) ==
  IF gx < 0 \/ gx >= w.width \/ gy < 0 \/ gy >= w.height
  THEN FALSE
  ELSE Cell(w, h, gx, gy) # sectorKey

\* World.setSector: the heap after the call.
setSectorHeap(w, h, gx, gy, sectorKey) ==
  IF setSectorResult(w, h, gx, gy, sectorKey)
  THEN [h EXCEPT ![w.grid[gy + 1]][gx + 1] = sectorKey]
  ELSE h

\* World.fillRect: the heap after the call.
fillRectHeap(w, h, x1, y1, x2, y2, sectorKey) ==
  LET minX == Max(0, Min(x1, x2))
      maxX == Min(w.width - 1, Max(x1, x2))
      minY == Max(0, Min(y1, y2))
      maxY == Min(w.height - 1, Max(y1, y2))
      rowAddrs == {w.grid[gy + 1] : gy \in minY..maxY}
  IN [a \in DOMAIN h |->
        IF a \in rowAddrs
        THEN [i \in 1..Len(h[a]) |->
                IF (i - 1) >= minX /\ (i - 1) <= maxX THEN sectorKey ELSE h[a][i]]
        ELSE h[a]]

\* World.countWalkable().
countWalkable(w, h) ==
  Cardinality({c \in (0..(w.width - 1)) \X (0..(w.height - 1)) :
                 isWalkable(w, h, c[1] * Unit, c[2] * Unit)})

\* Mutant of World_serialize: grid: this.grid (the row arrays are shared, not copied).
World_serialize_sharedRows(w) ==
  [exists |-> TRUE, width |-> w.width, height |-> w.height,
   defaultSector |-> w.defaultSector,
   sectorTypes |-> w.sectorTypes,
   grid |-> w.grid]

\* World.serialize(): the returned object.  grid: this.grid.map(row => [...row])
\* allocates fresh row arrays (the "s" rows); sectorTypes keeps the records.
World_serialize(w) ==
  [exists |-> TRUE, width |-> w.width, height |-> w.height,
   defaultSector |-> w.defaultSector,
   sectorTypes |-> w.sectorTypes,
   grid |-> RowsOf("s", Len(w.grid))]

\* World.serialize(): the heap once the fresh row arrays hold their copies.
World_serializeHeap(w, h) ==
  [a \in DOMAIN h |->
     IF a[1] = "s"
     THEN (IF a[2] <= Len(w.grid) THEN h[w.grid[a[2]]] ELSE <<>>)
     ELSE h[a]]

\* World.deserialize(data) on world w, whose new row arrays are owner's.
World_deserialize(w, data, owner) ==
  [w EXCEPT !.width = data.width,
            !.height = data.height,
            !.defaultSector = data.defaultSector,
            !.sectorTypes = data.sectorTypes,
            !.grid = RowsOf(owner, Len(data.grid))]

\* World.deserialize(data): the heap after this.grid = data.grid.map(row => [...row]).
World_deserializeHeap(h, data, owner) ==
  [a \in DOMAIN h |->
     IF a[1] = owner
     THEN (IF a[2] <= Len(data.grid) THEN h[data.grid[a[2]]] ELSE <<>>)
     ELSE h[a]]

(***************************************************************************)
(* Inputs of the World operations                                          *)
(***************************************************************************)
Addr == {"w", "s", "w2"} \X (1..GridH)

EmptyHeap == [a \in Addr |-> <<>>]

\* Row arrays of `owner` released (no reference to them is left).
Release(h, owner) == [a \in DOMAIN h |-> IF a[1] = owner THEN <<>> ELSE h[a]]

\* Grid coordinates handed to setSector / fillRect: the grid and a margin around it.
GridXs == (0 - Margin)..(GridW - 1 + Margin)
GridYs == (0 - Margin)..(GridH - 1 + Margin)

\* Corner points handed to fillRect: outside the grid on either side, the grid's
\* corners and the cells in between on the first row and the first column.
Corners ==
  {<<0 - Margin, 0 - Margin>>, <<GridW - 1 + Margin, GridH - 1 + Margin>>}
    \cup {<<gx, 0>> : gx \in 0..(GridW - 1)}
    \cup {<<0, gy>> : gy \in 0..(GridH - 1)}
    \cup {<<GridW - 1, GridH - 1>>}

\* World coordinates handed to getSector / isWalkable: two points of every such cell.
Probes == {c * Unit + o : c \in ((0 - Margin)..(Max(GridW, GridH) - 1 + Margin)), o \in {0, Unit - 1}}

\* `definition` arguments of registerSectorType.
EmptyDefinition == [f \in {} |-> 0]
Definitions == {EmptyDefinition, [walkable |-> FALSE]}

\* config.defaultSector of the World constructor (absent: 'void').
DefaultSectorConfigs == {"void", "floor"}

\* Saved worlds handed to deserialize: each is the serialize() of a constructible world.
SavedWorlds ==
  { [width |-> 1, height |-> 1, defaultSector |-> "void",
     sectorTypes |-> registerSectorType(NewWorld("s", 1, 1, "void"), "floor", EmptyDefinition).sectorTypes,
     rows |-> << <<"floor">> >>],
    [width |-> GridW, height |-> GridH, defaultSector |-> "floor",
     sectorTypes |-> NewWorld("s", GridW, GridH, "floor").sectorTypes,
     rows |-> [i \in 1..GridH |-> [j \in 1..GridW |-> "floor"]]] }

\* The record the registry holds under the world's default key.
DefaultRecord(w) == TypesGet(w.sectorTypes, w.defaultSector)

OutOfBoundsProbes(w) ==
  {p \in Probes \X Probes : ~InBounds(w, p[1] \div Unit, p[2] \div Unit)}

InBoundsProbes(w) ==
  {p \in Probes \X Probes : InBounds(w, p[1] \div Unit, p[2] \div Unit)}

(***************************************************************************)
(* Specification SpecWorld: one World under its mutating interface         *)
(***************************************************************************)
InitWorld ==
  \E ds \in DefaultSectorConfigs :
    /\ world = NewWorld("w", GridW, GridH, ds)
    /\ heap = NewWorldHeap(EmptyHeap, "w", GridW, GridH, ds)
    /\ world2 = NoWorld
    /\ snapshot = NoData
    /\ origView = <<>>
    /\ stage = "live"
    /\ ownGrid = <<>>
    /\ touched2 = FALSE
    /\ budget = 0
    /\ VisIdle
    /\ EntIdle
    /\ MoveIdle
    /\ EvtIdle
    /\ TickIdle
    /\ HostIdle

RegisterSectorType ==
  \E key \in Keys, definition \in Definitions :
    /\ world' = registerSectorType(world, key, definition)
    /\ UNCHANGED <<world2, snapshot, heap, origView, stage, ownGrid, touched2, budget>>
    /\ OnlyWorld

SetSector ==
  \E gx \in GridXs, gy \in GridYs, key \in Keys :
    /\ heap' = setSectorHeap(world, heap, gx, gy, key)
    /\ UNCHANGED <<world, world2, snapshot, origView, stage, ownGrid, touched2, budget>>
    /\ OnlyWorld

FillRect ==
  \E c1 \in Corners, c2 \in Corners, key \in Keys :
    /\ heap' = fillRectHeap(world, heap, c1[1], c1[2], c2[1], c2[2], key)
    /\ UNCHANGED <<world, world2, snapshot, origView, stage, ownGrid, touched2, budget>>
    /\ OnlyWorld

Deserialize ==
  \E sv \in SavedWorlds :
    LET data == [exists |-> TRUE, width |-> sv.width, height |-> sv.height,
                 defaultSector |-> sv.defaultSector, sectorTypes |-> sv.sectorTypes,
                 grid |-> RowsOf("s", sv.height)]
        h1 == [a \in DOMAIN heap |->
                 IF a[1] = "s"
                 THEN (IF a[2] <= sv.height THEN sv.rows[a[2]] ELSE <<>>)
                 ELSE heap[a]]
    IN /\ world' = World_deserialize(world, data, "w")
       /\ heap' = Release(World_deserializeHeap(h1, data, "w"), "s")
       /\ UNCHANGED <<world2, snapshot, origView, stage, ownGrid, touched2, budget>>
       /\ OnlyWorld

NextWorld == RegisterSectorType \/ SetSector \/ FillRect \/ Deserialize

SpecWorld == InitWorld /\ [][NextWorld]_vars

(***************************************************************************)
(* Specification SpecSer: serialize a World, deserialize into a second     *)
(* World, with mutations of either world before, between and after         *)
(***************************************************************************)
\* The grid of a world read row by row through the heap.
GridOf(w, h) == [i \in 1..Len(w.grid) |-> h[w.grid[i]]]

\* What getSector returns at every probe (in bounds and out of bounds).
View(w, h) == [p \in Probes \X Probes |-> getSector(w, h, p[1], p[2])]

\* fillRect corners of the serialize scenario: outside on either side, and (0, 0).
SerCorners == {<<0 - Margin, 0 - Margin>>, <<0, 0>>, <<GridW - 1 + Margin, GridH - 1 + Margin>>}

\* setSector cells of the serialize scenario: the grid and one cell outside it.
SerCells == ((0..(GridW - 1)) \X (0..(GridH - 1))) \cup {<<GridW, 0>>}

InitSer ==
  \E ds \in DefaultSectorConfigs :
    /\ world = NewWorld("w", GridW, GridH, ds)
    /\ heap = NewWorldHeap(EmptyHeap, "w", GridW, GridH, ds)
    /\ world2 = NoWorld
    /\ snapshot = NoData
    /\ origView = <<>>
    /\ stage = "live"
    /\ ownGrid = [i \in 1..GridH |-> [j \in 1..GridW |-> ds]]
    /\ touched2 = FALSE
    /\ budget = MaxSerOps
    /\ VisIdle
    /\ EntIdle
    /\ MoveIdle
    /\ EvtIdle
    /\ TickIdle
    /\ HostIdle

\* registerSectorType / setSector / fillRect on the first world.
SerMutateWorld ==
  /\ budget > 0
  /\ budget' = budget - 1
  /\ \/ \E key \in Keys, definition \in Definitions :
          /\ world' = registerSectorType(world, key, definition)
          /\ UNCHANGED <<heap, ownGrid>>
     \/ \E c \in SerCells, key \in Keys :
          /\ heap' = setSectorHeap(world, heap, c[1], c[2], key)
          /\ ownGrid' = GridOf(world, heap')
          /\ UNCHANGED world
     \/ \E c1 \in SerCorners, c2 \in SerCorners, key \in Keys :
          /\ heap' = fillRectHeap(world, heap, c1[1], c1[2], c2[1], c2[2], key)
          /\ ownGrid' = GridOf(world, heap')
          /\ UNCHANGED world
  /\ UNCHANGED <<world2, snapshot, origView, stage, touched2>>
  /\ OnlyWorld

\* registerSectorType / setSector / fillRect on the deserialized world.
SerMutateWorld2 ==
  /\ budget > 0
  /\ stage = "loaded"
  /\ budget' = budget - 1
  /\ touched2' = TRUE
  /\ \/ \E key \in Keys, definition \in Definitions :
          /\ world2' = registerSectorType(world2, key, definition)
          /\ UNCHANGED heap
     \/ \E c \in SerCells, key \in Keys :
          /\ heap' = setSectorHeap(world2, heap, c[1], c[2], key)
          /\ UNCHANGED world2
     \/ \E c1 \in SerCorners, c2 \in SerCorners, key \in Keys :
          /\ heap' = fillRectHeap(world2, heap, c1[1], c1[2], c2[1], c2[2], key)
          /\ UNCHANGED world2
  /\ UNCHANGED <<world, snapshot, origView, stage, ownGrid>>
  /\ OnlyWorld

\* data = world.serialize()
SerSerialize ==
  /\ stage = "live"
  /\ snapshot' = World_serialize(world)
  /\ heap' = World_serializeHeap(world, heap)
  /\ origView' = [view |-> View(world, heap), grid |-> GridOf(world, heap)]
  /\ stage' = "saved"
  /\ UNCHANGED <<world, world2, ownGrid, touched2, budget>>
  /\ OnlyWorld

\* world2 = new World().deserialize(data)
SerDeserialize ==
  /\ stage = "saved"
  /\ LET fresh == NewWorld("w2", GridW, GridH, "void")
         h1 == NewWorldHeap(heap, "w2", GridW, GridH, "void")
     IN /\ world2' = World_deserialize(fresh, snapshot, "w2")
        /\ heap' = World_deserializeHeap(h1, snapshot, "w2")
  /\ stage' = "loaded"
  /\ UNCHANGED <<world, snapshot, origView, ownGrid, touched2, budget>>
  /\ OnlyWorld

NextSer == SerMutateWorld \/ SerMutateWorld2 \/ SerSerialize \/ SerDeserialize

SpecSer == InitSer /\ [][NextSer]_vars

\* C9: the world obtained by deserialize(w.serialize()) returns at every probe,
\* in bounds and out of bounds, the sector record w.getSector returned when it
\* was serialized, holds the same grid keys, and keeps them whatever is done to
\* w afterwards; and no operation on the deserialized world changes w's grid.
C9_RoundTripAndIndependent ==
  /\ (stage = "loaded" /\ ~touched2) =>
        /\ View(world2, heap) = origView.view
        /\ GridOf(world2, heap) = origView.grid
  /\ GridOf(world, heap) = ownGrid

\* C9 witness: a loaded, untouched copy of a world that has a registered walkable
\* type in its grid, and whose original has been mutated since it was serialized.
C9_Witness ==
  /\ stage = "loaded"
  /\ ~touched2
  /\ GridOf(world, heap) # origView.grid
  /\ \E p \in InBoundsProbes(world2) : isWalkable(world2, heap, p[1], p[2])
  /\ \E p \in InBoundsProbes(world2) : ~isWalkable(world2, heap, p[1], p[2])

(***************************************************************************)
(* Claims C7, C8 (SpecWorld)                                               *)
(***************************************************************************)
\* C7: for every coordinate whose floored cell lies outside the grid, getSector
\* returns the default sector-type record (a record, not undefined) and
\* isWalkable returns false.
C7_OutOfBoundsIsDefaultAndBlocked ==
  \A p \in OutOfBoundsProbes(world) :
    /\ getSector(world, heap, p[1], p[2]).defined
    /\ getSector(world, heap, p[1], p[2]) = DefaultRecord(world)
    /\ ~isWalkableThrows(world, heap, p[1], p[2])
    /\ isWalkable(world, heap, p[1], p[2]) = FALSE

\* C8: getSector on every in-bounds cell returns a defined record: the record
\* registered under the cell's key, or the default record when the key is
\* unregistered; it never returns undefined.
C8_InBoundsResolves ==
  \A p \in InBoundsProbes(world) :
    LET key == Cell(world, heap, p[1] \div Unit, p[2] \div Unit)
        got == getSector(world, heap, p[1], p[2])
    IN /\ got.defined
       /\ got = (IF key \in DOMAIN world.sectorTypes
                 THEN world.sectorTypes[key] ELSE DefaultRecord(world))

(***************************************************************************)
(* Visibility                                                              *)
(*                                                                         *)
(* Angles are counted in units of 2*pi / fovRayCount, so that the ray      *)
(* angles of update() are whole numbers; RayDir is the table of            *)
(* (cos, sin) * rayStep for these angles, rounded to model units.          *)
(* A cell key `${gx},${gy}` is the pair <<gx, gy>>.                        *)
(***************************************************************************)
rayStep == 4        \* this.rayStep = 0.4 cells
fovRayCount == 8    \* config.fovRayCount of the Visibility of the model
FullCircle == fovRayCount   \* Math.PI * 2 in angle units

CeilDiv(a, b) == (a + b - 1) \div b

\* (Math.cos(angle) * rayStep, Math.sin(angle) * rayStep).
RayDir(angle) ==
  LET table == << <<4, 0>>, <<3, 3>>, <<0, 4>>, <<-3, 3>>,
                  <<-4, 0>>, <<-3, -3>>, <<0, -4>>, <<3, -3>> >>
  IN table[(angle % FullCircle) + 1]

\* Mutant of CastVisibilityRay: the ray stops in front of the blocking cell
\* without adding it.
RECURSIVE CastVisibilityRay_blockerLeftOut(_, _, _, _, _, _, _, _)
CastVisibilityRay_blockerLeftOut(w, h, x, y, dx, dy, d, viewDistance) ==
  IF ~(d < viewDistance) THEN {}
  ELSE LET nx == x + dx
           ny == y + dy
           key == <<nx \div Unit, ny \div Unit>>
       IN IF ~isWalkable(w, h, nx, ny)
            THEN {}
            ELSE {key} \cup CastVisibilityRay_blockerLeftOut(w, h, nx, ny, dx, dy,
                                                             d + rayStep, viewDistance)

\* Visibility._castVisibilityRay from its loop variable d on: the cell keys it
\* adds to currentlyVisible.
RECURSIVE CastVisibilityRay(_, _, _, _, _, _, _, _)
CastVisibilityRay(w, h, x, y, dx, dy, d, viewDistance) ==
  IF ~(d < viewDistance) THEN {}
  ELSE LET nx == x + dx
           ny == y + dy
           key == <<nx \div Unit, ny \div Unit>>
       IN {key} \cup (IF ~isWalkable(w, h, nx, ny)
                      THEN {}
                      ELSE CastVisibilityRay(w, h, nx, ny, dx, dy, d + rayStep, viewDistance))

\* Visibility.update: the new currentlyVisible (the sweep of rayCount rays).
update_currentlyVisible(w, h, x, y, angle, fov) ==
  LET startAngle == angle - (fov \div 2)
      rayCount == CeilDiv(fovRayCount * fov, FullCircle)
  IN UNION { LET rayAngle == startAngle + ((i * fov) \div rayCount)
                 dir == RayDir(rayAngle)
             IN CastVisibilityRay(w, h, x, y, dir[1], dir[2], 0, ViewDistance)
             : i \in 0..(rayCount - 1) }

\* Mutant of update_newlyDiscovered: the test !discovered.has(key) is dropped.
update_newlyDiscovered_knownCellsToo(w, h, previousVisible, visible, disc) ==
  {key \in visible :
     /\ key \notin previousVisible
     /\ isWalkable(w, h, key[1] * Unit, key[2] * Unit)}

\* Mutant of update_newlyDiscovered: the walkability test is dropped.
update_newlyDiscovered_anyCell(w, h, previousVisible, visible, disc) ==
  {key \in visible : key \notin previousVisible /\ key \notin disc}

\* Visibility.update: newlyDiscovered, the keys it adds to discovered.
update_newlyDiscovered(w, h, previousVisible, visible, disc) ==
  {key \in visible :
     /\ key \notin previousVisible
     /\ isWalkable(w, h, key[1] * Unit, key[2] * Unit)
     /\ key \notin disc}

\* Mutant of update_discovered: discovered is replaced by what this sweep found.
update_discovered_replaced(disc, newly) == newly

\* Visibility.update: discovered after the newly discovered keys were added.
update_discovered(disc, newly) == disc \cup newly

\* Visibility.discoverAll(): the keys it adds.
discoverAll_keys(w, h) ==
  {c \in (0..(w.width - 1)) \X (0..(w.height - 1)) :
     isWalkable(w, h, c[1] * Unit, c[2] * Unit)}

(***************************************************************************)
(* Specification SpecVis: one Visibility over one World                    *)
(***************************************************************************)
\* The level: row y of the grid is VisLevel[y + 1].
VisLevel == << <<"floor", "floor", "void">>,
               <<"floor", "floor", "floor">> >>

\* Viewer positions handed to update, in model units.
Viewpoints == {<<5, 5>>, <<15, 15>>, <<25, 15>>}

\* Viewer angles and fields of view handed to update, in angle units.
ViewAngles == {0, 3}
ViewFovs == {FullCircle, FullCircle \div 2}

\* Cells handed to setSector and to discover.
VisMutCells == {<<2, 0>>, <<1, 1>>}
VisDiscoverCells == {<<2, 0>>, <<-1, 0>>}

\* Saved discovery lists handed to deserializeDiscovery.
DiscoverySaves == {{}, {<<0, 0>>, <<1, 0>>}}

\* A step of the Visibility scenario leaves the serialize scenario alone.
OnlyVis ==
  UNCHANGED <<world2, snapshot, origView, stage, ownGrid, touched2, budget,
              entVars, moveVars, evtVars, tickVars, hostVars>>

\* new World({width, height}); registerSectorType('floor', {}); the level is
\* loaded; new Visibility(world, {viewDistance, fovRayCount}).
InitVis ==
  /\ world = registerSectorType(
               NewWorld("w", Len(VisLevel[1]), Len(VisLevel), "void"),
               "floor", EmptyDefinition)
  /\ heap = [a \in {"w"} \X (1..Len(VisLevel)) |-> VisLevel[a[2]]]
  /\ world2 = NoWorld
  /\ snapshot = NoData
  /\ origView = <<>>
  /\ stage = "live"
  /\ ownGrid = <<>>
  /\ touched2 = FALSE
  /\ budget = 0
  /\ discovered = {}
  /\ currentlyVisible = {}
  /\ totalWalkable = countWalkable(world, heap)
  /\ phase = "fresh"
  /\ EntIdle
  /\ MoveIdle
  /\ EvtIdle
  /\ TickIdle
  /\ HostIdle

\* visibility.update(x, y, angle, fov)
VisUpdate ==
  \E v \in Viewpoints, angle \in ViewAngles, fov \in ViewFovs :
    LET visible == update_currentlyVisible(world, heap, v[1], v[2], angle, fov)
        newly == update_newlyDiscovered(world, heap, currentlyVisible, visible, discovered)
    IN /\ currentlyVisible' = visible
       /\ discovered' = update_discovered(discovered, newly)
       /\ phase' = IF phase = "fresh" THEN "once" ELSE "updated"
       /\ UNCHANGED <<world, heap, totalWalkable>>
       /\ OnlyVis

\* visibility.discover(gx, gy)
VisDiscover ==
  \E c \in VisDiscoverCells :
    /\ discovered' = discovered \cup {c}
    /\ phase' = "other"
    /\ UNCHANGED <<world, heap, currentlyVisible, totalWalkable>>
    /\ OnlyVis

\* visibility.discoverAll()
VisDiscoverAll ==
  /\ discovered' = discovered \cup discoverAll_keys(world, heap)
  /\ phase' = "other"
  /\ UNCHANGED <<world, heap, currentlyVisible, totalWalkable>>
  /\ OnlyVis

\* world.setSector(gx, gy, key)
VisSetSector ==
  \E c \in VisMutCells, key \in Keys :
    /\ heap' = setSectorHeap(world, heap, c[1], c[2], key)
    /\ phase' = IF phase = "fresh" THEN "fresh" ELSE "other"
    /\ UNCHANGED <<world, discovered, currentlyVisible, totalWalkable>>
    /\ OnlyVis

\* world.fillRect(0, 1, width, 1, key): the second row
VisFillRect ==
  \E key \in Keys :
    /\ heap' = fillRectHeap(world, heap, 0, 1, world.width, 1, key)
    /\ phase' = IF phase = "fresh" THEN "fresh" ELSE "other"
    /\ UNCHANGED <<world, discovered, currentlyVisible, totalWalkable>>
    /\ OnlyVis

\* visibility.resetDiscovery()
VisResetDiscovery ==
  /\ discovered' = {}
  /\ currentlyVisible' = {}
  /\ phase' = "fresh"
  /\ UNCHANGED <<world, heap, totalWalkable>>
  /\ OnlyVis

\* visibility.deserializeDiscovery(data)
VisDeserializeDiscovery ==
  \E data \in DiscoverySaves :
    /\ discovered' = data
    /\ phase' = "other"
    /\ UNCHANGED <<world, heap, currentlyVisible, totalWalkable>>
    /\ OnlyVis

NextVis ==
  \/ VisUpdate \/ VisDiscover \/ VisDiscoverAll \/ VisSetSector \/ VisFillRect
  \/ VisResetDiscovery \/ VisDeserializeDiscovery

SpecVis == InitVis /\ [][NextVis]_vars

\* The same scenario without resetDiscovery and deserializeDiscovery.
NextVisNoReset ==
  VisUpdate \/ VisDiscover \/ VisDiscoverAll \/ VisSetSector \/ VisFillRect

SpecVisNoReset == InitVis /\ [][NextVisNoReset]_vars

(***************************************************************************)
(* Claims C4, C5, C6 (Visibility)                                          *)
(***************************************************************************)
WalkableCell(key) == isWalkable(world, heap, key[1] * Unit, key[2] * Unit)

\* C4: across update, discover, discoverAll and world mutations (no
\* resetDiscovery), Discovered before each step is a subset of Discovered after it.
C4_DiscoveredMonotone == [][discovered \subseteq discovered']_vars

\* C4 witness: an update has just returned, Discovered holds a cell that is no
\* longer visible and a cell that the world no longer has as walkable.
C4_Witness ==
  /\ phase = "updated"
  /\ \E key \in discovered : key \notin currentlyVisible
  /\ \E key \in discovered : ~WalkableCell(key)

\* C5: at the end of every update, each cell that is in CurrentlyVisible and is
\* walkable is also in Discovered.
C5_VisibleWalkableIsDiscovered ==
  phase \in {"once", "updated"} =>
    \A key \in currentlyVisible : WalkableCell(key) => key \in discovered

\* C6: after exactly one update on a fresh (or just reset) Visibility, Discovered
\* is exactly the set of walkable cells of CurrentlyVisible.
C6_FirstUpdateDiscoversWalkableVisible ==
  phase = "once" =>
    discovered = {key \in currentlyVisible : WalkableCell(key)}

\* C6 witness: after that one update CurrentlyVisible holds a walkable cell, a
\* non-walkable cell of the grid and a cell outside the grid.
C6_Witness ==
  /\ phase = "once"
  /\ discovered # {}
  /\ \E key \in currentlyVisible :
       InBounds(world, key[1], key[2]) /\ ~WalkableCell(key)
  /\ \E key \in currentlyVisible : ~InBounds(world, key[1], key[2])

\* ---------------------------------------------------------------------------
\* Entity and EntityManager (engine/core/entity.js).
\* Positions are in model units (Unit per world unit), like the World's.
\* ---------------------------------------------------------------------------

NumEntities == 2
Obj == 1..NumEntities

cellSize == 4

EntTypes == {"player", "npc"}

\* new Entity(config): id = config.id || Entity.nextId++ (configId 0 is "no
\* id given"); velocity zero, active, not removed.
Entity_new(configId, type, x, y) ==
  [id |-> IF configId # 0 THEN configId ELSE nextId,
   type |-> type, x |-> x, y |-> y, vx |-> 0, vy |-> 0,
   active |-> TRUE, removed |-> FALSE]

Entity_nextIdAfter(configId) == IF configId # 0 THEN nextId ELSE nextId + 1

\* Entity.update(dt) with the products vx*dt, vy*dt held in vx, vy.
Entity_update(e) ==
  IF e.vx # 0 \/ e.vy # 0 THEN [e EXCEPT !.x = e.x + e.vx, !.y = e.y + e.vy] ELSE e

\* Entity.remove()
Entity_remove(e) == [e EXCEPT !.removed = TRUE, !.active = FALSE]

\* _getCellKey(x, y): the pair stands for the string `${cx},${cy}`.
getCellKey(x, y) == <<x \div (cellSize * Unit), y \div (cellSize * Unit)>>

\* A bucket is a JS Set: insertion-ordered, no duplicates.
SeqToSet(q) == {q[i] : i \in 1..Len(q)}
SetAdd(q, o) == IF o \in SeqToSet(q) THEN q ELSE Append(q, o)
SetDelete(q, o) == SelectSeq(q, LAMBDA m : m # o)

\* Map.get on the spatial hash; <<>> stands for "no such bucket" (an emptied
\* bucket is always deleted, so an empty one never exists).
HashGet(hash, key) == IF key \in DOMAIN hash THEN hash[key] ELSE <<>>
HashSet(hash, key, cell) ==
  IF cell = <<>>
    THEN [k \in DOMAIN hash \ {key} |-> hash[k]]
    ELSE [k \in DOMAIN hash \cup {key} |-> IF k = key THEN cell ELSE hash[k]]

addToSpatialHash(hash, o, e) ==
  HashSet(hash, getCellKey(e.x, e.y), SetAdd(HashGet(hash, getCellKey(e.x, e.y)), o))

removeFromSpatialHash(hash, o, e) ==
  HashSet(hash, getCellKey(e.x, e.y), SetDelete(HashGet(hash, getCellKey(e.x, e.y)), o))

\* _updateSpatialHash(entity, oldX, oldY); e holds the entity's new position.
updateSpatialHash(hash, o, e, oldX, oldY) ==
  IF getCellKey(oldX, oldY) # getCellKey(e.x, e.y)
    THEN addToSpatialHash(
           HashSet(hash, getCellKey(oldX, oldY),
                   SetDelete(HashGet(hash, getCellKey(oldX, oldY)), o)),
           o, e)
    ELSE hash

TypeGet(bt, type) == IF type \in DOMAIN bt THEN bt[type] ELSE {}
TypeSet(bt, type, set) ==
  [t \in DOMAIN bt \cup {type} |-> IF t = type THEN set ELSE bt[t]]

\* EntityManager.entities is a JS Map: insertion-ordered entries [id, obj].
\* Object 0 stands for undefined.
MapHas(m, id) == \E i \in 1..Len(m) : m[i].id = id
MapGet(m, id) ==
  IF MapHas(m, id) THEN (CHOOSE i \in 1..Len(m) : m[i].id = id) ELSE 0
MapValue(m, id) == IF MapHas(m, id) THEN m[MapGet(m, id)].obj ELSE 0
MapSet(m, id, o) ==
  IF MapHas(m, id)
    THEN [m EXCEPT ![MapGet(m, id)] = [id |-> id, obj |-> o]]
    ELSE Append(m, [id |-> id, obj |-> o])
MapDelete(m, id) == SelectSeq(m, LAMBDA entry : entry.id # id)
MapValues(m) == {m[i].obj : i \in 1..Len(m)}

\* The manager's state as one value, so that update can thread it through its
\* two loops; emitted collects the events the call hands to _emit.
Manager == [ent |-> ent, entities |-> entities, byType |-> byType,
            spatialHash |-> spatialHash, emitted |-> <<>>]

\* EntityManager.add(entity)
EntityManager_add(st, o) ==
  [ent |-> st.ent,
   entities |-> MapSet(st.entities, st.ent[o].id, o),
   byType |-> TypeSet(st.byType, st.ent[o].type,
                      TypeGet(st.byType, st.ent[o].type) \cup {o}),
   spatialHash |-> addToSpatialHash(st.spatialHash, o, st.ent[o]),
   emitted |-> Append(st.emitted, [event |-> "entityAdded", obj |-> o])]

\* Mutant of EntityManager_remove: entityRemoved is emitted before the lookup
\* result is tested, so also for an id that is not registered.
EntityManager_remove_emitsFirst(st, id) ==
  LET o == MapValue(st.entities, id) IN
    IF o = 0 THEN [st EXCEPT !.emitted = Append(@, [event |-> "entityRemoved", obj |-> o])]
    ELSE [ent |-> [st.ent EXCEPT ![o] = Entity_remove(@)],
          entities |-> MapDelete(st.entities, id),
          byType |-> IF st.ent[o].type \in DOMAIN st.byType
                       THEN TypeSet(st.byType, st.ent[o].type,
                                    st.byType[st.ent[o].type] \ {o})
                       ELSE st.byType,
          spatialHash |-> removeFromSpatialHash(st.spatialHash, o, st.ent[o]),
          emitted |-> Append(st.emitted, [event |-> "entityRemoved", obj |-> o])]

\* EntityManager.remove(entityOrId), given the id it resolves to.
EntityManager_remove(st, id) ==
  LET o == MapValue(st.entities, id) IN
    IF o = 0 THEN st
    ELSE [ent |-> [st.ent EXCEPT ![o] = Entity_remove(@)],
          entities |-> MapDelete(st.entities, id),
          byType |-> IF st.ent[o].type \in DOMAIN st.byType
                       THEN TypeSet(st.byType, st.ent[o].type,
                                    st.byType[st.ent[o].type] \ {o})
                       ELSE st.byType,
          spatialHash |-> removeFromSpatialHash(st.spatialHash, o, st.ent[o]),
          emitted |-> Append(st.emitted, [event |-> "entityRemoved", obj |-> o])]

\* EntityManager.update, first loop, from entry i on: every active entity is
\* advanced and re-bucketed if its position changed.
RECURSIVE update_advance(_, _)
update_advance(st, i) ==
  IF i > Len(st.entities) THEN st
  ELSE LET o == st.entities[i].obj
           old == st.ent[o]
           new == Entity_update(old)
       IN IF ~old.active THEN update_advance(st, i + 1)
          ELSE update_advance(
                 [st EXCEPT
                    !.ent = [st.ent EXCEPT ![o] = new],
                    !.spatialHash =
                       IF new.x # old.x \/ new.y # old.y
                         THEN updateSpatialHash(st.spatialHash, o, new, old.x, old.y)
                         ELSE st.spatialHash,
                    !.emitted =
                       IF new.x # old.x \/ new.y # old.y
                         THEN Append(st.emitted, [event |-> "entityMoved", obj |-> o])
                         ELSE st.emitted],
                 i + 1)

\* EntityManager.update, second loop: the entries are visited in the order of
\* the map as the loop found it; a visit removes at most the visited entry.
RECURSIVE update_purge(_, _, _)
update_purge(st, entries, i) ==
  IF i > Len(entries) THEN st
  ELSE IF st.ent[entries[i].obj].removed
         THEN update_purge(EntityManager_remove(st, st.ent[entries[i].obj].id),
                           entries, i + 1)
         ELSE update_purge(st, entries, i + 1)

EntityManager_update(st) ==
  LET advanced == update_advance(st, 1)
  IN update_purge(advanced, advanced.entities, 1)

\* getNear(x, y, radius): the buckets in scan order, their entities in
\* insertion order, flattened.
RECURSIVE getNear_scan(_, _, _, _, _, _)
getNear_scan(hash, cx, cy, minCellX, maxCellX, maxCellY) ==
  IF cy > maxCellY THEN <<>>
  ELSE IF cx > maxCellX
         THEN getNear_scan(hash, minCellX, cy + 1, minCellX, maxCellX, maxCellY)
         ELSE HashGet(hash, <<cx, cy>>)
              \o getNear_scan(hash, cx + 1, cy, minCellX, maxCellX, maxCellY)

getNear_within(e, x, y, radius) ==
  (e.x - x) * (e.x - x) + (e.y - y) * (e.y - y) <= radius * radius

\* The results array: an entity of the scan is skipped if an earlier one has
\* its id (the checked set), and pushed if it is within the radius.
getNear(st, x, y, radius) ==
  LET scan == getNear_scan(st.spatialHash,
                           (x - radius) \div (cellSize * Unit),
                           (y - radius) \div (cellSize * Unit),
                           (x - radius) \div (cellSize * Unit),
                           (x + radius) \div (cellSize * Unit),
                           (y + radius) \div (cellSize * Unit))
      first(i) == \A j \in 1..(i - 1) : st.ent[scan[j]].id # st.ent[scan[i]].id
      pushed(i) == first(i) /\ getNear_within(st.ent[scan[i]], x, y, radius)
      RECURSIVE results(_)
      results(i) ==
        IF i > Len(scan) THEN <<>>
        ELSE (IF pushed(i) THEN <<scan[i]>> ELSE <<>>) \o results(i + 1)
  IN results(1)

\* ---------------------------------------------------------------------------
\* SpecEnt: an EntityManager, the entities the application constructs, and the
\* application's own writes to an entity's fields.
\* ---------------------------------------------------------------------------

\* No World is part of the scenario.
WorldIdle ==
  /\ world = NoWorld
  /\ world2 = NoWorld
  /\ snapshot = NoData
  /\ heap = <<>>
  /\ origView = <<>>
  /\ stage = "live"
  /\ ownGrid = <<>>
  /\ touched2 = FALSE
  /\ budget = 0

OnlyEnt == UNCHANGED <<worldVars, visVars, moveVars, evtVars, tickVars, hostVars>>

\* Positions on both sides of the bucket borders x = 0, x = 40 and y = 40.
EntPositions == {<<-20, 10>>, <<10, 10>>, <<40, 10>>, <<40, 50>>}
MaxRepositions == 1
\* vx * dt, vy * dt of one update
EntVelocities == {<<0, 0>>, <<-30, 0>>}
\* config.id: 0 for none
ConfigIds == {0, 1}
EntIds == 1..(NumEntities + 1)

InitEnt ==
  /\ WorldIdle
  /\ VisIdle
  /\ EntIdle
  /\ MoveIdle
  /\ EvtIdle
  /\ TickIdle
  /\ HostIdle

SetManager(st) ==
  /\ ent' = st.ent
  /\ entities' = st.entities
  /\ byType' = st.byType
  /\ spatialHash' = st.spatialHash

\* new Entity(config)
EntNew ==
  \E configId \in ConfigIds, type \in EntTypes, p \in EntPositions :
    /\ Len(ent) < NumEntities
    /\ ent' = Append(ent, Entity_new(configId, type, p[1], p[2]))
    /\ nextId' = Entity_nextIdAfter(configId)
    /\ lastOp' = "other"
    /\ UNCHANGED <<entities, byType, spatialHash, repositions>>
    /\ OnlyEnt

\* entities.add(entity)
EntAdd ==
  \E o \in DOMAIN ent :
    /\ SetManager(EntityManager_add(Manager, o))
    /\ lastOp' = "other"
    /\ UNCHANGED <<nextId, repositions>>
    /\ OnlyEnt

\* entity.remove()
EntMarkRemoved ==
  \E o \in DOMAIN ent :
    /\ ~ent[o].removed
    /\ ent' = [ent EXCEPT ![o] = Entity_remove(@)]
    /\ lastOp' = "remove"
    /\ UNCHANGED <<nextId, entities, byType, spatialHash, repositions>>
    /\ OnlyEnt

\* entities.remove(id) and entities.remove(entity), for an id that is
\* registered
EntManagerRemove ==
  \E id \in EntIds :
    /\ MapHas(entities, id)
    /\ SetManager(EntityManager_remove(Manager, id))
    /\ lastOp' = "remove"
    /\ UNCHANGED <<nextId, repositions>>
    /\ OnlyEnt

\* entities.remove(id) for an id that is not registered
EntManagerRemoveUnknown ==
  \E id \in EntIds :
    /\ ~MapHas(entities, id)
    /\ SetManager(EntityManager_remove(Manager, id))
    /\ lastOp' = "other"
    /\ UNCHANGED <<nextId, repositions>>
    /\ OnlyEnt

\* The application sets an entity's velocity.
EntSetVelocity ==
  \E o \in DOMAIN ent, v \in EntVelocities :
    /\ ent' = [ent EXCEPT ![o].vx = v[1], ![o].vy = v[2]]
    /\ lastOp' = "other"
    /\ UNCHANGED <<nextId, entities, byType, spatialHash, repositions>>
    /\ OnlyEnt

\* The application repositions an entity by assigning x and y, as the engine
\* does with the result of movement.move (and setPlayerPosition).
EntReposition ==
  \E o \in DOMAIN ent, p \in EntPositions :
    /\ repositions < MaxRepositions
    /\ repositions' = repositions + 1
    /\ ent' = [ent EXCEPT ![o].x = p[1], ![o].y = p[2]]
    /\ lastOp' = "other"
    /\ UNCHANGED <<nextId, entities, byType, spatialHash>>
    /\ OnlyEnt

\* entities.update(dt); enabled while it keeps every entity on the positions
\* the model enumerates.
EntUpdate ==
  /\ \A o \in DOMAIN ent :
       <<Entity_update(ent[o]).x, Entity_update(ent[o]).y>> \in EntPositions
  /\ SetManager(EntityManager_update(Manager))
  /\ lastOp' = "update"
  /\ UNCHANGED <<nextId, repositions>>
  /\ OnlyEnt

NextEnt ==
  \/ EntNew
  \/ EntAdd
  \/ EntMarkRemoved
  \/ EntManagerRemove
  \/ EntManagerRemoveUnknown
  \/ EntSetVelocity
  \/ EntReposition
  \/ EntUpdate

SpecEnt == InitEnt /\ [][NextEnt]_vars

\* SpecEntRegistry: the manager's own interface only; the application does
\* not write entity fields (Entity.remove apart).
NextEntRegistry ==
  \/ EntNew
  \/ EntAdd
  \/ EntMarkRemoved
  \/ EntManagerRemove
  \/ EntManagerRemoveUnknown
  \/ EntUpdate

SpecEntRegistry == InitEnt /\ [][NextEntRegistry]_vars

\* ---------------------------------------------------------------------------
\* Claims about the EntityManager
\* ---------------------------------------------------------------------------

Registered == MapValues(entities)

\* The keys of the buckets that hold entity o.
BucketsOf(o) == {k \in DOMAIN spatialHash : o \in SeqToSet(spatialHash[k])}

\* C1: whenever EntityManager.update has just returned (the end of a tick),
\* after any adds, removals, updates and repositionings by the application,
\* every registered entity is in exactly one bucket, the one of its current
\* position (floor(x / cellSize), floor(y / cellSize)).
C1_OneBucketOfCurrentPosition ==
  lastOp = "update" =>
    \A o \in Registered : BucketsOf(o) = {getCellKey(ent[o].x, ent[o].y)}

NearPoints == {<<10, 10>>, <<40, 10>>}
NearRadii == {30, 45}

WithinStrictly(e, x, y, radius) ==
  (e.x - x) * (e.x - x) + (e.y - y) * (e.y - y) < radius * radius

\* C2: after any adds, removals and updates (no position assigned by the
\* application), getNear(x, y, r) returns no entity twice and returns exactly
\* the registered entities whose distance to (x, y) is strictly less than r.
C2_GetNearExactlyWithinRadius ==
  repositions = 0 =>
    \A p \in NearPoints, r \in NearRadii :
      LET results == getNear(Manager, p[1], p[2], r) IN
        /\ \A i, j \in 1..Len(results) : results[i] = results[j] => i = j
        /\ SeqToSet(results) =
             {o \in Registered : WithinStrictly(ent[o], p[1], p[2], r)}

\* C3: a step that requests a removal (entity.remove() or
\* EntityManager.remove) leaves the registry, the by-type view and the buckets
\* as they are, and whenever EntityManager.update has just returned no entity
\* with removed = true is in the registry, the by-type view or a bucket.
C3_RemovalDeferredThenPurged ==
  /\ [][lastOp' = "remove" => UNCHANGED <<entities, byType, spatialHash>>]_vars
  /\ [](lastOp = "update" =>
          \A o \in DOMAIN ent :
            ent[o].removed =>
              /\ o \notin Registered
              /\ \A t \in DOMAIN byType : o \notin byType[t]
              /\ BucketsOf(o) = {})

\* ---------------------------------------------------------------------------
\* Movement (data/mechs.js). Lengths and heights are in model units.
\* ---------------------------------------------------------------------------

defaultRadius == 2
maxStepHeight == 3
\* new Movement(world, { collisionStep: 0.5 })
collisionStep == 5

\* canOccupy's testPoints, in the order of the loop.
canOccupy_testPoints(x, y, r) ==
  << <<x, y>>,
     <<x - r, y - r>>, <<x + r, y - r>>, <<x - r, y + r>>, <<x + r, y + r>>,
     <<x - r, y>>, <<x + r, y>>, <<x, y - r>>, <<x, y + r>> >>

\* Mutant of canOccupy_pointPasses: the step-height test is dropped.
canOccupy_pointPasses_stepIgnored(w, h, point, z, hasZ) ==
  LET sector == getSector(w, h, point[1], point[2]) IN
    /\ sector.defined
    /\ sector.walkable

\* One test point lets the loop go on: its sector is walkable and, when z is
\* given, not more than maxStepHeight above z.
canOccupy_pointPasses(w, h, point, z, hasZ) ==
  LET sector == getSector(w, h, point[1], point[2]) IN
    /\ sector.defined
    /\ sector.walkable
    /\ hasZ => ~(sector.floor - z > maxStepHeight)

\* canOccupy reads a field of `undefined`: a test point resolves to no record
\* and every test point before it passed.
canOccupyThrows(w, h, x, y, radius, z, hasZ) ==
  LET points == canOccupy_testPoints(x, y, IF radius # 0 THEN radius ELSE defaultRadius)
  IN \E i \in 1..Len(points) :
       /\ ~getSector(w, h, points[i][1], points[i][2]).defined
       /\ \A j \in 1..(i - 1) : canOccupy_pointPasses(w, h, points[j], z, hasZ)

\* Movement.canOccupy(x, y, radius, z) when it returns; radius 0 stands for
\* null, hasZ = FALSE for z undefined.
canOccupy(w, h, x, y, radius, z, hasZ) ==
  LET points == canOccupy_testPoints(x, y, IF radius # 0 THEN radius ELSE defaultRadius)
  IN \A i \in 1..Len(points) : canOccupy_pointPasses(w, h, points[i], z, hasZ)

\* Math.ceil(Math.sqrt(dx*dx + dy*dy) / collisionStep)
move_steps(dx, dy) ==
  CHOOSE n \in 0..(dx * dx + dy * dy) :
    /\ n * n * collisionStep * collisionStep >= dx * dx + dy * dy
    /\ \A m \in 0..(n - 1) :
         m * m * collisionStep * collisionStep < dx * dx + dy * dy

\* Mutant of move_microSteps: every micro-step is taken unchecked.
move_microSteps_unchecked(w, h, x, y, stepX, stepY, radius, z, hasZ, i, steps) ==
  IF i >= steps THEN <<x, y>>
  ELSE <<x + (steps - i) * stepX, y + (steps - i) * stepY>>

\* move's micro-step loop from iteration i on, at (x, y).
RECURSIVE move_microSteps(_, _, _, _, _, _, _, _, _, _, _)
move_microSteps(w, h, x, y, stepX, stepY, radius, z, hasZ, i, steps) ==
  IF i >= steps THEN <<x, y>>
  ELSE IF canOccupy(w, h, x + stepX, y + stepY, radius, z, hasZ)
         THEN move_microSteps(w, h, x + stepX, y + stepY, stepX, stepY,
                              radius, z, hasZ, i + 1, steps)
       ELSE IF canOccupy(w, h, x + stepX, y, radius, z, hasZ)
         THEN move_microSteps(w, h, x + stepX, y, stepX, stepY,
                              radius, z, hasZ, i + 1, steps)
       ELSE IF canOccupy(w, h, x, y + stepY, radius, z, hasZ)
         THEN move_microSteps(w, h, x, y + stepY, stepX, stepY,
                              radius, z, hasZ, i + 1, steps)
       ELSE <<x, y>>

\* Mutant of move: the full displacement is never tried first; every call
\* goes through the slide and micro-step branches.
move_withoutFullMove(w, h, entity, dx, dy) ==
  LET radius == IF entity.radius # 0 THEN entity.radius ELSE defaultRadius
      z == entity.z
      hasZ == entity.hasZ
      startX == entity.x
      startY == entity.y
      newX == startX + dx
      newY == startY + dy
      slideXOk == dx # 0 /\ canOccupy(w, h, newX, startY, radius, z, hasZ)
      resultX1 == IF slideXOk THEN newX ELSE startX
      slideYOk == dy # 0 /\ canOccupy(w, h, resultX1, newY, radius, z, hasZ)
      resultY1 == IF slideYOk THEN newY ELSE startY
      collided1 == ~(slideXOk \/ slideYOk)
      stepping == /\ resultX1 = startX /\ resultY1 = startY
                  /\ (dx # 0 \/ dy # 0)
                  /\ dx * dx + dy * dy > collisionStep * collisionStep
      steps == move_steps(dx, dy)
      stepped == move_microSteps(w, h, startX, startY, dx \div steps, dy \div steps,
                                 radius, z, hasZ, 0, steps)
      resultX == IF stepping THEN stepped[1] ELSE resultX1
      resultY == IF stepping THEN stepped[2] ELSE resultY1
      collided == IF stepping THEN (resultX = startX /\ resultY = startY)
                  ELSE collided1
  IN [x |-> resultX, y |-> resultY, collided |-> collided,
      slideX |-> resultX - startX - dx, slideY |-> resultY - startY - dy]

\* Mutant of move: collided is not recomputed after the micro-step loop, so
\* it stays true when the loop made progress.
move_collidedNotRecomputed(w, h, entity, dx, dy) ==
  LET radius == IF entity.radius # 0 THEN entity.radius ELSE defaultRadius
      z == entity.z
      hasZ == entity.hasZ
      startX == entity.x
      startY == entity.y
      newX == startX + dx
      newY == startY + dy
      slideXOk == dx # 0 /\ canOccupy(w, h, newX, startY, radius, z, hasZ)
      resultX1 == IF slideXOk THEN newX ELSE startX
      slideYOk == dy # 0 /\ canOccupy(w, h, resultX1, newY, radius, z, hasZ)
      resultY1 == IF slideYOk THEN newY ELSE startY
      collided1 == ~(slideXOk \/ slideYOk)
      stepping == /\ resultX1 = startX /\ resultY1 = startY
                  /\ (dx # 0 \/ dy # 0)
                  /\ dx * dx + dy * dy > collisionStep * collisionStep
      steps == move_steps(dx, dy)
      stepped == move_microSteps(w, h, startX, startY, dx \div steps, dy \div steps,
                                 radius, z, hasZ, 0, steps)
      resultX == IF stepping THEN stepped[1] ELSE resultX1
      resultY == IF stepping THEN stepped[2] ELSE resultY1
      collided == collided1
  IN IF canOccupy(w, h, newX, newY, radius, z, hasZ)
       THEN [x |-> newX, y |-> newY, collided |-> FALSE, slideX |-> 0, slideY |-> 0]
       ELSE [x |-> resultX, y |-> resultY, collided |-> collided,
             slideX |-> resultX - startX - dx, slideY |-> resultY - startY - dy]

\* Movement.move(entity, dx, dy). The displacements of the model are such
\* that dx / steps and dy / steps are whole model units.
move(w, h, entity, dx, dy) ==
  LET radius == IF entity.radius # 0 THEN entity.radius ELSE defaultRadius
      z == entity.z
      hasZ == entity.hasZ
      startX == entity.x
      startY == entity.y
      newX == startX + dx
      newY == startY + dy
      slideXOk == dx # 0 /\ canOccupy(w, h, newX, startY, radius, z, hasZ)
      resultX1 == IF slideXOk THEN newX ELSE startX
      slideYOk == dy # 0 /\ canOccupy(w, h, resultX1, newY, radius, z, hasZ)
      resultY1 == IF slideYOk THEN newY ELSE startY
      collided1 == ~(slideXOk \/ slideYOk)
      stepping == /\ resultX1 = startX /\ resultY1 = startY
                  /\ (dx # 0 \/ dy # 0)
                  /\ dx * dx + dy * dy > collisionStep * collisionStep
      steps == move_steps(dx, dy)
      stepped == move_microSteps(w, h, startX, startY, dx \div steps, dy \div steps,
                                 radius, z, hasZ, 0, steps)
      resultX == IF stepping THEN stepped[1] ELSE resultX1
      resultY == IF stepping THEN stepped[2] ELSE resultY1
      collided == IF stepping THEN (resultX = startX /\ resultY = startY)
                  ELSE collided1
  IN IF canOccupy(w, h, newX, newY, radius, z, hasZ)
       THEN [x |-> newX, y |-> newY, collided |-> FALSE, slideX |-> 0, slideY |-> 0]
       ELSE [x |-> resultX, y |-> resultY, collided |-> collided,
             slideX |-> resultX - startX - dx, slideY |-> resultY - startY - dy]

\* ---------------------------------------------------------------------------
\* SpecMove: a Movement over a fixed level; the application places an entity
\* and moves it, assigning each result to the entity as the engine's tick does.
\* ---------------------------------------------------------------------------

\* 'ledge' is registered with floor 0.5, above maxStepHeight for z = 0.
ledgeDefinition == [floor |-> 5]

\* Cell (0, 0) is floor enclosed by void and the outside; row 2 is a corridor
\* one cell wide below the blocked cells of row 1. 'lava' is a key that is
\* never registered: getSector resolves it to the default record.
MoveLevel == << <<"floor", "void", "floor", "floor">>,
                <<"void", "lava", "floor", "ledge">>,
                <<"floor", "floor", "floor", "floor">> >>

\* The entities moved: radius 0 is "no radius" (the default applies).
MoverKinds == { [radius |-> 0, z |-> 0, hasZ |-> TRUE],
                [radius |-> 4, z |-> 0, hasZ |-> TRUE],
                [radius |-> 0, z |-> 2, hasZ |-> TRUE] }

\* Where the application puts the entity: the middle and the left of the
\* enclosed cell, open floor, the corridor, inside a void cell, on floor but
\* within a radius of a wall, on the ledge.
MovePlaces == {<<5, 5>>, <<2, 5>>, <<25, 15>>, <<5, 25>>, <<15, 5>>, <<21, 15>>,
               <<35, 15>>}

MoveDeltas == {<<0, 0>>, <<10, 0>>, <<-10, 0>>, <<0, 10>>, <<0, -10>>,
               <<15, 20>>, <<-20, -15>>}

OnlyMove == UNCHANGED <<worldVars, visVars, entVars, evtVars, tickVars, hostVars>>

InitMove ==
  /\ world = registerSectorType(
               registerSectorType(
                 NewWorld("w", Len(MoveLevel[1]), Len(MoveLevel), "void"),
                 "floor", EmptyDefinition),
               "ledge", ledgeDefinition)
  /\ heap = [a \in {"w"} \X (1..Len(MoveLevel)) |-> MoveLevel[a[2]]]
  /\ world2 = NoWorld
  /\ snapshot = NoData
  /\ origView = <<>>
  /\ stage = "live"
  /\ ownGrid = <<>>
  /\ touched2 = FALSE
  /\ budget = 0
  /\ VisIdle
  /\ EntIdle
  /\ \E kind \in MoverKinds, p \in MovePlaces :
       mover = [exists |-> TRUE, x |-> p[1], y |-> p[2], z |-> kind.z,
                hasZ |-> kind.hasZ, radius |-> kind.radius]
  /\ moveCall = [called |-> FALSE]
  /\ query = [op |-> "none"]
  /\ EvtIdle
  /\ TickIdle
  /\ HostIdle

\* The application assigns the entity's position.
MovePlace ==
  \E p \in MovePlaces :
    /\ mover' = [mover EXCEPT !.x = p[1], !.y = p[2]]
    /\ moveCall' = [called |-> FALSE]
    /\ UNCHANGED query
    /\ OnlyMove

\* result = movement.move(entity, dx, dy); entity.x = result.x;
\* entity.y = result.y
MoveEntity ==
  \E d \in MoveDeltas :
    LET result == move(world, heap, mover, d[1], d[2]) IN
      /\ moveCall' = [called |-> TRUE, dx |-> d[1], dy |-> d[2],
                      startX |-> mover.x, startY |-> mover.y,
                      startOccupiable |->
                        canOccupy(world, heap, mover.x, mover.y, mover.radius,
                                  mover.z, mover.hasZ),
                      result |-> result]
      /\ mover' = [mover EXCEPT !.x = result.x, !.y = result.y]
      /\ UNCHANGED query
      /\ OnlyMove

NextMove ==
  \/ MovePlace
  \/ MoveEntity

SpecMove == InitMove /\ [][NextMove]_vars

\* C10: every Movement.move(entity, 0, 0), from an occupiable position or not,
\* returns the entity's position unchanged and collided = false.
C10_ZeroMoveIsNoOp ==
  (moveCall.called /\ moveCall.dx = 0 /\ moveCall.dy = 0) =>
    /\ moveCall.result.x = moveCall.startX
    /\ moveCall.result.y = moveCall.startY
    /\ moveCall.result.collided = FALSE

\* The entity of the last move call could stand at (x, y).
MoverCanOccupy(x, y) ==
  canOccupy(world, heap, x, y, mover.radius, mover.z, mover.hasZ)

\* The eight cells around cell (gx, gy).
NeighbourCells(gx, gy) ==
  {c \in ((gx - 1)..(gx + 1)) \X ((gy - 1)..(gy + 1)) : c # <<gx, gy>>}

\* Cell (gx, gy) is enclosed: none of the cells around it is walkable.
Enclosed(gx, gy) ==
  \A c \in NeighbourCells(gx, gy) : ~WalkableCell(c)

\* C11: a move with a non-zero displacement from an occupiable position in an
\* enclosed cell, whose target lies in one of the enclosing cells, returns
\* the start position and collided = true.
C11_EnclosedMoveStaysPut ==
  ( /\ moveCall.called
    /\ moveCall.startOccupiable
    /\ Enclosed(moveCall.startX \div Unit, moveCall.startY \div Unit)
    /\ (moveCall.dx # 0 \/ moveCall.dy # 0)
    /\ <<(moveCall.startX + moveCall.dx) \div Unit,
         (moveCall.startY + moveCall.dy) \div Unit>>
         \in NeighbourCells(moveCall.startX \div Unit, moveCall.startY \div Unit) )
  => /\ moveCall.result.collided = TRUE
     /\ moveCall.result.x = moveCall.startX
     /\ moveCall.result.y = moveCall.startY

\* C12: whenever the full target (x + dx, y + dy) of a move is occupiable for
\* the entity, move returns exactly that target with collided = false and a
\* zero slide.
C12_OccupiableTargetIsAccepted ==
  (moveCall.called
     /\ MoverCanOccupy(moveCall.startX + moveCall.dx, moveCall.startY + moveCall.dy))
  => moveCall.result =
       [x |-> moveCall.startX + moveCall.dx, y |-> moveCall.startY + moveCall.dy,
        collided |-> FALSE, slideX |-> 0, slideY |-> 0]

\* C12 witness: a move along x in a corridor one cell wide (the cells above
\* and below the start cell and the target cell are not walkable) reached its
\* target in the next cell.
C12_Witness ==
  /\ moveCall.called
  /\ moveCall.dx # 0 /\ moveCall.dy = 0
  /\ moveCall.startOccupiable
  /\ (moveCall.startX + moveCall.dx) \div Unit # moveCall.startX \div Unit
  /\ \A x \in {moveCall.startX, moveCall.startX + moveCall.dx} :
       /\ ~WalkableCell(<<x \div Unit, moveCall.startY \div Unit - 1>>)
       /\ ~WalkableCell(<<x \div Unit, moveCall.startY \div Unit + 1>>)
  /\ moveCall.result.x = moveCall.startX + moveCall.dx
  /\ moveCall.result.y = moveCall.startY
  /\ moveCall.result.slideX = 0

\* C13: for every move call, collided is true only if the returned position
\* is the start position, and the slide is the actual displacement minus the
\* requested one.
C13_CollidedAndSlideConsistent ==
  moveCall.called =>
    /\ moveCall.result.collided =>
         (moveCall.result.x = moveCall.startX /\ moveCall.result.y = moveCall.startY)
    /\ moveCall.result.slideX = moveCall.result.x - moveCall.startX - moveCall.dx
    /\ moveCall.result.slideY = moveCall.result.y - moveCall.startY - moveCall.dy

\* C13 witness: a move that was blocked part of the way: the entity moved,
\* collided is false and the slide is not zero.
C13_Witness ==
  /\ moveCall.called
  /\ ~moveCall.result.collided
  /\ moveCall.result.x # moveCall.startX
  /\ moveCall.result.x # moveCall.startX + moveCall.dx
  /\ moveCall.result.slideX # 0

\* ---------------------------------------------------------------------------
\* Queries: Visibility.hasLineOfSight and Movement.tracePath. A sample point
\* start + i * d / steps is held as its floor in model units, which lies in
\* the same cell and has the same nine test points' cells.
\* ---------------------------------------------------------------------------

\* Math.ceil(Math.sqrt(dx*dx + dy*dy) / step)
CeilDistOver(dx, dy, step) ==
  CHOOSE n \in 0..(dx * dx + dy * dy) :
    /\ n * n * step * step >= dx * dx + dy * dy
    /\ \A m \in 0..(n - 1) : m * m * step * step < dx * dx + dy * dy

\* x1 + i * (dx / steps), floored
SampleAt(x1, dx, i, steps) == x1 + (i * dx) \div steps

\* Visibility.hasLineOfSight(x1, y1, x2, y2): 0.1 is Unit / 10, the step 0.2
\* is Unit / 5.
hasLineOfSight(w, h, x1, y1, x2, y2) ==
  LET dx == x2 - x1
      dy == y2 - y1
      steps == CeilDistOver(dx, dy, Unit \div 5)
  IN IF 100 * (dx * dx + dy * dy) < Unit * Unit THEN TRUE
     ELSE \A i \in 1..steps :
            isWalkable(w, h, SampleAt(x1, dx, i, steps), SampleAt(y1, dy, i, steps))

\* Mutant of tracePath: a zero-length path is reported valid without looking
\* at the point.
tracePath_zeroLengthValid(w, h, x1, y1, x2, y2, radius) ==
  LET r == IF radius # 0 THEN radius ELSE defaultRadius
      dx == x2 - x1
      dy == y2 - y1
      steps == CeilDistOver(dx, dy, collisionStep)
      at(i) == <<SampleAt(x1, dx, i, steps), SampleAt(y1, dy, i, steps)>>
      blocked == {i \in 0..steps : ~canOccupy(w, h, at(i)[1], at(i)[2], r, 0, TRUE)}
      first == CHOOSE i \in blocked : \A j \in blocked : i <= j
  IN IF 10000 * (dx * dx + dy * dy) < Unit * Unit
       THEN [valid |-> TRUE, blockedAt |-> <<>>]
       ELSE IF blocked # {}
              THEN [valid |-> FALSE, blockedAt |-> at(first)]
              ELSE [valid |-> TRUE, blockedAt |-> <<>>]

\* Movement.tracePath(x1, y1, x2, y2, radius): radius 0 stands for null, <<>>
\* for a null blockedAt; 0.01 is Unit / 100. canOccupy gets no z, hence its
\* default 0.
tracePath(w, h, x1, y1, x2, y2, radius) ==
  LET r == IF radius # 0 THEN radius ELSE defaultRadius
      dx == x2 - x1
      dy == y2 - y1
      steps == CeilDistOver(dx, dy, collisionStep)
      at(i) == <<SampleAt(x1, dx, i, steps), SampleAt(y1, dy, i, steps)>>
      blocked == {i \in 0..steps : ~canOccupy(w, h, at(i)[1], at(i)[2], r, 0, TRUE)}
      first == CHOOSE i \in blocked : \A j \in blocked : i <= j
  IN IF 10000 * (dx * dx + dy * dy) < Unit * Unit
       THEN [valid |-> canOccupy(w, h, x1, y1, r, 0, TRUE), blockedAt |-> <<>>]
       ELSE IF blocked # {}
              THEN [valid |-> FALSE, blockedAt |-> at(first)]
              ELSE [valid |-> TRUE, blockedAt |-> <<>>]

\* hasLineOfSight raises a TypeError: isWalkable reads .walkable of undefined
\* at a sample that the loop reaches.
hasLineOfSightThrows(w, h, x1, y1, x2, y2) ==
  LET dx == x2 - x1
      dy == y2 - y1
      steps == CeilDistOver(dx, dy, Unit \div 5)
      sx(i) == SampleAt(x1, dx, i, steps)
      sy(i) == SampleAt(y1, dy, i, steps)
  IN /\ ~(100 * (dx * dx + dy * dy) < Unit * Unit)
     /\ \E i \in 1..steps :
          /\ isWalkableThrows(w, h, sx(i), sy(i))
          /\ \A j \in 1..(i - 1) :
               ~isWalkableThrows(w, h, sx(j), sy(j)) /\ isWalkable(w, h, sx(j), sy(j))

\* tracePath raises a TypeError: a canOccupy call that the loop reaches does.
tracePathThrows(w, h, x1, y1, x2, y2, radius) ==
  LET r == IF radius # 0 THEN radius ELSE defaultRadius
      dx == x2 - x1
      dy == y2 - y1
      steps == CeilDistOver(dx, dy, collisionStep)
      at(i) == <<SampleAt(x1, dx, i, steps), SampleAt(y1, dy, i, steps)>>
  IN IF 10000 * (dx * dx + dy * dy) < Unit * Unit
       THEN canOccupyThrows(w, h, x1, y1, r, 0, TRUE)
       ELSE \E i \in 0..steps :
              /\ canOccupyThrows(w, h, at(i)[1], at(i)[2], r, 0, TRUE)
              /\ \A j \in 0..(i - 1) : canOccupy(w, h, at(j)[1], at(j)[2], r, 0, TRUE)

\* What a caller gets: the value, or the error raised.
Outcome(threw, value) == IF threw THEN [error |-> "TypeError"] ELSE value

\* Math.sqrt of a perfect square (the offsets of the model have whole lengths).
SqrtExact(n) == CHOOSE k \in 0..n : k * k = n

\* Movement.getOverlapPush(entity1, entity2): the push vector is
\* (x / over, y / over) model units, kept as a fraction; radius 0 stands
\* for none; 0.001 is Unit / 1000.
getOverlapPush(entity1, entity2) ==
  LET dx == entity2.x - entity1.x
      dy == entity2.y - entity1.y
      dist == SqrtExact(dx * dx + dy * dy)
      r1 == IF entity1.radius # 0 THEN entity1.radius ELSE defaultRadius
      r2 == IF entity2.radius # 0 THEN entity2.radius ELSE defaultRadius
      minDist == r1 + r2
      overlap == minDist - dist
  IN IF dist >= minDist \/ 1000 * dist < Unit
       THEN [null |-> TRUE]
       ELSE [null |-> FALSE, x |-> dx * overlap, y |-> dy * overlap, over |-> 2 * dist]

\* (Math.cos(angle), Math.sin(angle)) times 10000 for angle = k * Math.PI / 8.
RingDir(k) ==
  << <<10000, 0>>, <<9239, 3827>>, <<7071, 7071>>, <<3827, 9239>>,
     <<0, 10000>>, <<-3827, 9239>>, <<-7071, 7071>>, <<-9239, 3827>>,
     <<-10000, 0>>, <<-9239, -3827>>, <<-7071, -7071>>, <<-3827, -9239>>,
     <<0, -10000>>, <<3827, -9239>>, <<7071, -7071>>, <<9239, -3827>> >>[k + 1]

\* The ring step 0.5 in model units.
RingStep == Unit \div 2

\* findValidPosition's i-th sample (i from 0): ring i \div 16 + 1, angle
\* index i % 16; the point target + (cos, sin) * dist, floored.
findValidPosition_sample(targetX, targetY, i) ==
  LET dist == (i \div 16 + 1) * RingStep
      dir == RingDir(i % 16)
  IN [x |-> targetX + (dir[1] * dist) \div 10000,
      y |-> targetY + (dir[2] * dist) \div 10000,
      ring |-> i \div 16 + 1, k |-> i % 16]

\* Mutant of findValidPosition: the target itself is not tried first.
findValidPosition_targetNotTried(w, h, targetX, targetY, radius, searchRadius) ==
  LET r == IF radius # 0 THEN radius ELSE defaultRadius
      count == 16 * (searchRadius \div RingStep)
      sample(i) == findValidPosition_sample(targetX, targetY, i)
      good == {i \in 0..(count - 1) : canOccupy(w, h, sample(i).x, sample(i).y, r, 0, TRUE)}
      first == CHOOSE i \in good : \A j \in good : i <= j
  IN IF good # {}
       THEN [null |-> FALSE, x |-> sample(first).x, y |-> sample(first).y,
             ring |-> sample(first).ring, k |-> sample(first).k]
       ELSE [null |-> TRUE]

\* Movement.findValidPosition(targetX, targetY, radius, searchRadius): rings
\* dist = 0.5, 1, ... <= searchRadius, sixteen angles each; ring 0 is the
\* target itself. canOccupy gets no z, hence its default 0.
findValidPosition(w, h, targetX, targetY, radius, searchRadius) ==
  LET r == IF radius # 0 THEN radius ELSE defaultRadius
      count == 16 * (searchRadius \div RingStep)
      sample(i) == findValidPosition_sample(targetX, targetY, i)
      good == {i \in 0..(count - 1) : canOccupy(w, h, sample(i).x, sample(i).y, r, 0, TRUE)}
      first == CHOOSE i \in good : \A j \in good : i <= j
  IN IF canOccupy(w, h, targetX, targetY, r, 0, TRUE)
       THEN [null |-> FALSE, x |-> targetX, y |-> targetY, ring |-> 0, k |-> 0]
       ELSE IF good # {}
              THEN [null |-> FALSE, x |-> sample(first).x, y |-> sample(first).y,
                    ring |-> sample(first).ring, k |-> sample(first).k]
              ELSE [null |-> TRUE]

\* findValidPosition raises a TypeError: the canOccupy call for the target
\* does, or the one for a sample that the search reaches.
findValidPositionThrows(w, h, targetX, targetY, radius, searchRadius) ==
  LET r == IF radius # 0 THEN radius ELSE defaultRadius
      count == 16 * (searchRadius \div RingStep)
      sample(i) == findValidPosition_sample(targetX, targetY, i)
  IN \/ canOccupyThrows(w, h, targetX, targetY, r, 0, TRUE)
     \/ /\ ~canOccupy(w, h, targetX, targetY, r, 0, TRUE)
        /\ \E i \in 0..(count - 1) :
             /\ canOccupyThrows(w, h, sample(i).x, sample(i).y, r, 0, TRUE)
             /\ \A j \in 0..(i - 1) :
                  /\ ~canOccupyThrows(w, h, sample(j).x, sample(j).y, r, 0, TRUE)
                  /\ ~canOccupy(w, h, sample(j).x, sample(j).y, r, 0, TRUE)

\* ---------------------------------------------------------------------------
\* SpecQuery: the read-only queries of Visibility and Movement over the level
\* of SpecMove.
\* ---------------------------------------------------------------------------

\* Points in the enclosed cell, in void, beside a wall, on open floor, in the
\* corridor, on the ledge and outside the grid.
QueryPoints == {<<5, 5>>, <<15, 5>>, <<21, 15>>, <<25, 15>>, <<5, 25>>,
                <<25, 25>>, <<35, 15>>, <<-5, 5>>}
QueryRadii == {0, 2, 4}

\* The level of SpecMove, or new World({width, height, defaultSector:
\* 'floor'}) as the constructor leaves it.
InitQuery ==
  /\ \/ /\ world = registerSectorType(
                    registerSectorType(
                      NewWorld("w", Len(MoveLevel[1]), Len(MoveLevel), "void"),
                      "floor", EmptyDefinition),
                    "ledge", ledgeDefinition)
        /\ heap = [a \in {"w"} \X (1..Len(MoveLevel)) |-> MoveLevel[a[2]]]
     \/ /\ world = NewWorld("w", Len(MoveLevel[1]), Len(MoveLevel), "floor")
        /\ heap = [a \in {"w"} \X (1..Len(MoveLevel)) |->
                     [i \in 1..Len(MoveLevel[1]) |-> "floor"]]
  /\ world2 = NoWorld
  /\ snapshot = NoData
  /\ origView = <<>>
  /\ stage = "live"
  /\ ownGrid = <<>>
  /\ touched2 = FALSE
  /\ budget = 0
  /\ VisIdle
  /\ EntIdle
  /\ MoveIdle
  /\ EvtIdle
  /\ TickIdle
  /\ HostIdle

OnlyQuery ==
  UNCHANGED <<worldVars, visVars, entVars, mover, moveCall, evtVars, tickVars, hostVars>>

\* visibility.hasLineOfSight(x1, y1, x2, y2)
QueryHasLineOfSight ==
  \E p \in QueryPoints, q \in QueryPoints :
    /\ query' = [op |-> "hasLineOfSight", x1 |-> p[1], y1 |-> p[2],
                 x2 |-> q[1], y2 |-> q[2],
                 threw |-> hasLineOfSightThrows(world, heap, p[1], p[2], q[1], q[2]),
                 result |-> Outcome(
                   hasLineOfSightThrows(world, heap, p[1], p[2], q[1], q[2]),
                   hasLineOfSight(world, heap, p[1], p[2], q[1], q[2]))]
    /\ OnlyQuery

\* movement.tracePath(x1, y1, x2, y2, radius)
QueryTracePath ==
  \E p \in QueryPoints, q \in QueryPoints, radius \in QueryRadii :
    /\ query' = [op |-> "tracePath", x1 |-> p[1], y1 |-> p[2],
                 x2 |-> q[1], y2 |-> q[2], radius |-> radius,
                 threw |-> tracePathThrows(world, heap, p[1], p[2], q[1], q[2], radius),
                 result |-> Outcome(
                   tracePathThrows(world, heap, p[1], p[2], q[1], q[2], radius),
                   tracePath(world, heap, p[1], p[2], q[1], q[2], radius))]
    /\ OnlyQuery

\* Offsets between two entities, of whole length: coincident, overlapping
\* and apart for the radii below.
OverlapOffsets == {<<0, 0>>, <<4, 0>>, <<0, -3>>, <<3, 4>>, <<-4, -3>>, <<6, 0>>,
                   <<6, 8>>}
OverlapRadii == {0, 3}

\* movement.getOverlapPush(entity1, entity2)
QueryGetOverlapPush ==
  \E p \in QueryPoints, d \in OverlapOffsets, r1 \in OverlapRadii, r2 \in OverlapRadii :
    LET entity1 == [x |-> p[1], y |-> p[2], radius |-> r1]
        entity2 == [x |-> p[1] + d[1], y |-> p[2] + d[2], radius |-> r2]
    IN /\ query' = [op |-> "getOverlapPush", entity1 |-> entity1, entity2 |-> entity2,
                    threw |-> FALSE,
                    result |-> getOverlapPush(entity1, entity2)]
       /\ OnlyQuery

\* searchRadius: none, one ring, a ring and a half, several rings.
SearchRadii == {0, 5, 7, 20}

\* movement.findValidPosition(targetX, targetY, radius, searchRadius)
QueryFindValidPosition ==
  \E p \in QueryPoints, radius \in QueryRadii, searchRadius \in SearchRadii :
    /\ query' = [op |-> "findValidPosition", targetX |-> p[1], targetY |-> p[2],
                 radius |-> radius, searchRadius |-> searchRadius,
                 threw |-> findValidPositionThrows(world, heap, p[1], p[2], radius,
                                                   searchRadius),
                 result |-> Outcome(
                   findValidPositionThrows(world, heap, p[1], p[2], radius,
                                           searchRadius),
                   findValidPosition(world, heap, p[1], p[2], radius, searchRadius))]
    /\ OnlyQuery

\* Points of QueryPoints and one whose lower left corner alone is in a
\* blocked cell.
OccupyPoints == QueryPoints \cup {<<21, 21>>}
OccupyHeights == {0, 2, 3}

\* movement.canOccupy(x, y, radius, z) and movement.canOccupy(x, y, radius):
\* without z the parameter takes its default, 0.
QueryCanOccupy ==
  \E p \in OccupyPoints, radius \in QueryRadii, passZ \in BOOLEAN, height \in OccupyHeights :
    LET z == IF passZ THEN height ELSE 0 IN
      /\ ~passZ => height = 0
      /\ query' = [op |-> "canOccupy", x |-> p[1], y |-> p[2], radius |-> radius,
                   passZ |-> passZ, z |-> z,
                   threw |-> canOccupyThrows(world, heap, p[1], p[2], radius, z, TRUE),
                   result |-> Outcome(
                     canOccupyThrows(world, heap, p[1], p[2], radius, z, TRUE),
                     canOccupy(world, heap, p[1], p[2], radius, z, TRUE))]
      /\ OnlyQuery

NextQuery ==
  \/ QueryHasLineOfSight
  \/ QueryTracePath
  \/ QueryGetOverlapPush
  \/ QueryFindValidPosition
  \/ QueryCanOccupy

SpecQuery == InitQuery /\ [][NextQuery]_vars

\* C14: hasLineOfSight(p, p) is true for every point p, and tracePath(p, p,
\* radius), when it returns, reports valid exactly when p is occupiable for
\* that radius.
C14_ZeroLengthQueries ==
  /\ (query.op = "hasLineOfSight" /\ query.x1 = query.x2 /\ query.y1 = query.y2)
       => (~query.threw /\ query.result = TRUE)
  /\ (query.op = "tracePath" /\ ~query.threw
        /\ query.x1 = query.x2 /\ query.y1 = query.y2)
       => query.result.valid =
            canOccupy(world, heap, query.x1, query.y1, query.radius, 0, TRUE)

\* C14 witness: a zero-length tracePath at a point that is not occupiable
\* (reported invalid) was made.
C14_Witness ==
  /\ query.op = "tracePath"
  /\ ~query.threw
  /\ query.x1 = query.x2 /\ query.y1 = query.y2
  /\ ~canOccupy(world, heap, query.x1, query.y1, query.radius, 0, TRUE)
  /\ query.result.valid = FALSE

\* C15: for two entities whose circles overlap (centre distance < r1 + r2,
\* coincident centres included) getOverlapPush returns a vector along the
\* centre-to-centre axis such that moving entity2 by it and entity1 by its
\* negation leaves the centres exactly r1 + r2 apart; for entities that do not
\* overlap it returns null.
C15_OverlapPushSeparates ==
  query.op = "getOverlapPush" =>
    LET dx == query.entity2.x - query.entity1.x
        dy == query.entity2.y - query.entity1.y
        r1 == IF query.entity1.radius # 0 THEN query.entity1.radius ELSE defaultRadius
        r2 == IF query.entity2.radius # 0 THEN query.entity2.radius ELSE defaultRadius
        push == query.result
        \* the centre difference after both moves, times push.over
        ndx == dx * push.over + 2 * push.x
        ndy == dy * push.over + 2 * push.y
    IN IF dx * dx + dy * dy < (r1 + r2) * (r1 + r2)
         THEN /\ ~push.null
              /\ push.x * dy = push.y * dx
              /\ ndx * ndx + ndy * ndy = (push.over * (r1 + r2)) * (push.over * (r1 + r2))
         ELSE push.null

\* The three indexes of a manager state.
Indexes(st) == <<st.entities, st.byType, st.spatialHash>>

\* C16: remove with an id that is not registered (unknown, or removed
\* before) changes neither the registry, the by-type view, the buckets nor any
\* entity and emits nothing; removing a registered id twice ends in the state
\* that removing it once ends in, the second call emitting nothing.
C16_RemoveIdempotent ==
  \A id \in EntIds :
    LET once == EntityManager_remove(Manager, id)
        twice == EntityManager_remove([once EXCEPT !.emitted = <<>>], id)
    IN /\ ~MapHas(entities, id) => once = Manager
       /\ Indexes(twice) = Indexes(once)
       /\ twice.ent = once.ent
       /\ twice.emitted = <<>>

\* C16 witness: a removal through the manager has just happened, its id is no
\* longer registered, and another entity still is.
C16_Witness ==
  /\ lastOp = "remove"
  /\ \E o \in DOMAIN ent :
       /\ ent[o].removed
       /\ ~MapHas(entities, ent[o].id)
       /\ BucketsOf(o) = {}
  /\ entities # <<>>

\* ---------------------------------------------------------------------------
\* World events: on / off / _emit for 'sectorChanged', and SpecEvents, a World
\* with subscribed callbacks under setSector.
\* ---------------------------------------------------------------------------

\* World.on('sectorChanged', callback): push
World_on(ls, callback) == Append(ls, callback)

\* World.off('sectorChanged', callback): filter
World_off(ls, callback) == SelectSeq(ls, LAMBDA cb : cb # callback)

\* World._emit('sectorChanged', data): one call of each entry of the list, in
\* order.
World_emit(ls, data) == [i \in 1..Len(ls) |-> [callback |-> ls[i], data |-> data]]

\* The calls setSector makes to callbacks: none on either early return.
setSectorDelivered(w, h, ls, gx, gy, sectorKey) ==
  IF setSectorResult(w, h, gx, gy, sectorKey)
    THEN World_emit(ls, [x |-> gx, y |-> gy, oldKey |-> Cell(w, h, gx, gy),
                         newKey |-> sectorKey])
    ELSE <<>>

MaxListeners == 2
Callbacks == {"a", "b"}
\* Cells in the grid and one outside it.
EventCells == {<<0, 0>>, <<1, 0>>, <<-1, 0>>}

OnlyEvents == UNCHANGED <<world, world2, snapshot, origView, stage, ownGrid,
                          touched2, budget, visVars, entVars, moveVars, tickVars, hostVars>>

InitEvents ==
  /\ world = registerSectorType(NewWorld("w", GridW, GridH, "void"),
                                "floor", EmptyDefinition)
  /\ heap = NewWorldHeap(EmptyHeap, "w", GridW, GridH, "void")
  /\ world2 = NoWorld
  /\ snapshot = NoData
  /\ origView = <<>>
  /\ stage = "live"
  /\ ownGrid = <<>>
  /\ touched2 = FALSE
  /\ budget = 0
  /\ VisIdle
  /\ EntIdle
  /\ MoveIdle
  /\ EvtIdle
  /\ TickIdle
  /\ HostIdle

\* world.on('sectorChanged', callback); a callback may be subscribed twice.
EvOn ==
  \E callback \in Callbacks :
    /\ Len(listeners) < MaxListeners
    /\ listeners' = World_on(listeners, callback)
    /\ setCall' = [called |-> FALSE]
    /\ UNCHANGED heap
    /\ OnlyEvents

\* world.off('sectorChanged', callback)
EvOff ==
  \E callback \in Callbacks :
    /\ listeners' = World_off(listeners, callback)
    /\ setCall' = [called |-> FALSE]
    /\ UNCHANGED heap
    /\ OnlyEvents

\* world.setSector(gx, gy, sectorKey)
EvSetSector ==
  \E c \in EventCells, key \in Keys :
    /\ heap' = setSectorHeap(world, heap, c[1], c[2], key)
    /\ setCall' = [called |-> TRUE, gx |-> c[1], gy |-> c[2], sectorKey |-> key,
                   before |-> heap,
                   returned |-> setSectorResult(world, heap, c[1], c[2], key),
                   delivered |-> setSectorDelivered(world, heap, listeners,
                                                    c[1], c[2], key)]
    /\ UNCHANGED listeners
    /\ OnlyEvents

NextEvents ==
  \/ EvOn
  \/ EvOff
  \/ EvSetSector

SpecEvents == InitEvents /\ [][NextEvents]_vars

\* C17: setSector returns true exactly when the cell is in bounds and held a
\* different key; then the cell holds the new key and every subscribed
\* callback got exactly one sectorChanged event with the cell, the old key and
\* the new key; when it returns false the grid is as before and nothing was
\* delivered.
C17_SetSectorReportsAndSignals ==
  setCall.called =>
    LET gx == setCall.gx
        gy == setCall.gy
        inBounds == InBounds(world, gx, gy)
        oldKey == IF inBounds THEN Cell(world, setCall.before, gx, gy) ELSE "none"
    IN /\ setCall.returned = (inBounds /\ oldKey # setCall.sectorKey)
       /\ setCall.returned =>
            /\ Cell(world, heap, gx, gy) = setCall.sectorKey
            /\ Len(setCall.delivered) = Len(listeners)
            /\ \A i \in 1..Len(listeners) :
                 setCall.delivered[i] =
                   [callback |-> listeners[i],
                    data |-> [x |-> gx, y |-> gy, oldKey |-> oldKey,
                              newKey |-> setCall.sectorKey]]
       /\ ~setCall.returned =>
            /\ heap = setCall.before
            /\ setCall.delivered = <<>>

\* C17 witness: a setSector that changed a cell was delivered to two
\* subscribed callbacks.
C17_Witness ==
  /\ setCall.called
  /\ setCall.returned
  /\ Len(listeners) = 2
  /\ Len(setCall.delivered) = 2
  /\ heap # setCall.before

\* C18: findValidPosition, when it returns, returns the target when the target is occupiable;
\* otherwise the first occupiable sample in ring order, which is within
\* searchRadius of the target; null exactly when neither the target nor any
\* sample up to searchRadius is occupiable; every result is occupiable.
C18_FindValidPosition ==
  (query.op = "findValidPosition" /\ ~query.threw) =>
    LET occ(x, y) == canOccupy(world, heap, x, y, query.radius, 0, TRUE)
        sample(i) == findValidPosition_sample(query.targetX, query.targetY, i)
        inReach == {i \in 0..(16 * (query.searchRadius \div RingStep + 1)) :
                      sample(i).ring * RingStep <= query.searchRadius}
        res == query.result
    IN /\ occ(query.targetX, query.targetY) =>
            (~res.null /\ res.x = query.targetX /\ res.y = query.targetY)
       /\ res.null <=>
            (~occ(query.targetX, query.targetY)
               /\ \A i \in inReach : ~occ(sample(i).x, sample(i).y))
       /\ (~res.null /\ ~occ(query.targetX, query.targetY)) =>
            \E i \in inReach :
              /\ res.x = sample(i).x /\ res.y = sample(i).y
              /\ res.ring = sample(i).ring /\ res.k = sample(i).k
              /\ \A j \in inReach : j < i => ~occ(sample(j).x, sample(j).y)
       /\ ~res.null => occ(res.x, res.y)

\* C18 witness: the target was not occupiable, no sample of the first ring
\* was, and a sample of a later ring was returned.
C18_Witness ==
  /\ query.op = "findValidPosition"
  /\ ~query.threw
  /\ ~canOccupy(world, heap, query.targetX, query.targetY, query.radius, 0, TRUE)
  /\ ~query.result.null
  /\ query.result.ring >= 2

\* C19 (for hasLineOfSight, tracePath and findValidPosition): in every world,
\* cells with unregistered keys included, and for all points in or out of
\* bounds, the call finishes without raising an error.
C19_QueriesRaiseNoError ==
  query.op \in {"hasLineOfSight", "tracePath", "findValidPosition"} => ~query.threw

\* ---------------------------------------------------------------------------
\* SectorEngine: the fixed-timestep tick, _fixedUpdate, over the level of
\* SpecMove. The player is the first Entity, registered with the engine's
\* EntityManager; the tick's calls are taken one at a time.
\* ---------------------------------------------------------------------------

playerRadius == 2
MaxTicks == 2

\* The player object.
player == 1

\* config.playerStartX, config.playerStartY
PlayerStarts == {<<25, 15>>, <<5, 25>>}
\* moveInput.turn, in angle units
TickTurns == {0, 2}
\* The movement vector (dx, dy) computed from the angle and the input.
TickDeltas == {<<0, 0>>, <<10, 0>>, <<0, 10>>, <<-10, -10>>}
\* config.fov, in angle units
configFov == FullCircle \div 2

OnlyTickPosition ==
  UNCHANGED <<worldVars, visVars, entVars, moveVars, evtVars, hostVars>>

\* new SectorEngine(config); the level is loaded; init(): the player is
\* created and added, then visibility.update(player.x, player.y).
InitTick ==
  /\ world = registerSectorType(
               registerSectorType(
                 NewWorld("w", Len(MoveLevel[1]), Len(MoveLevel), "void"),
                 "floor", EmptyDefinition),
               "ledge", ledgeDefinition)
  /\ heap = [a \in {"w", "s"} \X (1..Len(MoveLevel)) |->
               IF a[1] = "w" THEN MoveLevel[a[2]] ELSE <<>>]
  /\ world2 = NoWorld
  /\ snapshot = NoData
  /\ origView = <<>>
  /\ stage = "live"
  /\ ownGrid = <<>>
  /\ touched2 = FALSE
  /\ budget = 0
  /\ \E p \in PlayerStarts :
       LET made == [id |-> 1, type |-> "player", x |-> p[1], y |-> p[2],
                    vx |-> 0, vy |-> 0, active |-> TRUE, removed |-> FALSE]
           st == EntityManager_add(
                   [ent |-> <<made>>, entities |-> <<>>, byType |-> <<>>,
                    spatialHash |-> <<>>, emitted |-> <<>>], player)
           visible == update_currentlyVisible(world, heap, p[1], p[2], 0, FullCircle)
       IN /\ ent = st.ent
          /\ entities = st.entities
          /\ byType = st.byType
          /\ spatialHash = st.spatialHash
          /\ currentlyVisible = visible
          /\ discovered = update_discovered({},
               update_newlyDiscovered(world, heap, {}, visible, {}))
  /\ nextId = 2
  /\ repositions = 0
  /\ lastOp = "other"
  /\ totalWalkable = countWalkable(world, heap)
  /\ phase = "once"
  /\ MoveIdle
  /\ EvtIdle
  /\ HostIdle
  /\ tick = [pc |-> "idle", log |-> <<>>, angle |-> 0, dx |-> 0, dy |-> 0,
             ticks |-> 0]

\* _fixedUpdate up to the movement vector: the input is read, the turn is
\* applied and the angle normalised.
TickInput ==
  \E turn \in TickTurns, d \in TickDeltas :
    /\ tick.pc = "idle"
    /\ tick.ticks < MaxTicks
    /\ tick' = [tick EXCEPT !.pc = "move", !.log = <<>>,
                            !.angle = (tick.angle + turn) % FullCircle,
                            !.dx = d[1], !.dy = d[2]]
    /\ OnlyTickPosition

\* if (dx !== 0 || dy !== 0) { result = movement.move(player, dx, dy);
\* player.x = result.x; player.y = result.y }
TickMove ==
  /\ tick.pc = "move"
  /\ IF tick.dx # 0 \/ tick.dy # 0
       THEN LET result == move(world, heap,
                               [x |-> ent[player].x, y |-> ent[player].y, z |-> 0,
                                hasZ |-> TRUE, radius |-> playerRadius],
                               tick.dx, tick.dy)
            IN /\ ent' = [ent EXCEPT ![player].x = result.x, ![player].y = result.y]
               /\ tick' = [tick EXCEPT !.pc = "visibility",
                                       !.log = Append(@, "move")]
       ELSE /\ ent' = ent
            /\ tick' = [tick EXCEPT !.pc = "visibility"]
  /\ UNCHANGED <<nextId, entities, byType, spatialHash, repositions, lastOp>>
  /\ UNCHANGED <<worldVars, visVars, moveVars, evtVars, hostVars>>

\* visibility.update(player.x, player.y, player.angle, config.fov)
TickVisibility ==
  /\ tick.pc = "visibility"
  /\ LET visible == update_currentlyVisible(world, heap, ent[player].x,
                                            ent[player].y, tick.angle, configFov)
         newly == update_newlyDiscovered(world, heap, currentlyVisible, visible,
                                         discovered)
     IN /\ currentlyVisible' = visible
        /\ discovered' = update_discovered(discovered, newly)
  /\ phase' = "updated"
  /\ tick' = [tick EXCEPT !.pc = "entities", !.log = Append(@, "visibility")]
  /\ UNCHANGED <<totalWalkable, worldVars, entVars, moveVars, evtVars, hostVars>>

\* entities.update(dt), then the update callbacks; the tick is over.
TickEntities ==
  /\ tick.pc = "entities"
  /\ SetManager(EntityManager_update(Manager))
  /\ lastOp' = "update"
  /\ tick' = [tick EXCEPT !.pc = "idle", !.log = Append(@, "entities"),
                          !.ticks = @ + 1]
  /\ UNCHANGED <<nextId, repositions, worldVars, visVars, moveVars, evtVars,
                 hostVars>>

NextTick ==
  \/ TickInput
  \/ TickMove
  \/ TickVisibility
  \/ TickEntities

SpecTick == InitTick /\ [][NextTick]_vars

\* The place of a call in the order move, entities.update, visibility.update.
ClaimedRank(call) ==
  CASE call = "move" -> 1
    [] call = "entities" -> 2
    [] call = "visibility" -> 3

\* C20: within one tick the movement solver runs first, then the spatial
\* index is updated (EntityManager.update), then visibility is recomputed;
\* visibility is never recomputed before that tick's spatial index update.
C20_MoveThenIndexThenVisibility ==
  tick.pc # "none" =>
    /\ \A i, j \in 1..Len(tick.log) :
         i < j => ClaimedRank(tick.log[i]) < ClaimedRank(tick.log[j])
    /\ \A i \in 1..Len(tick.log) :
         tick.log[i] = "visibility" =>
           \E j \in 1..(i - 1) : tick.log[j] = "entities"

\* ---------------------------------------------------------------------------
\* SectorEngine: start, stop and the game loop _loop. Times are in time units
\* (the division by 1000 is a change of unit); what a tick does is the matter
\* of SpecTick, here a frame counts its ticks. The FPS counters are left out:
\* nothing in the loop reads them.
\* ---------------------------------------------------------------------------

fixedTimestep == 2
maxFrameTime == 5
MaxTime == 8
MaxPending == 2

\* Readings of performance.now() and timestamps of animation frames.
Times == 0..MaxTime

\* _loop from the clamp on: the frame time added to the accumulator.
loop_frameTime(time, lastTime) ==
  LET dt == time - lastTime
  IN IF dt > maxFrameTime THEN maxFrameTime ELSE dt

\* _loop: how often the while loop runs _fixedUpdate for an accumulator.
loop_updates(accumulator) ==
  IF accumulator >= fixedTimestep THEN accumulator \div fixedTimestep ELSE 0

OnlyLoop ==
  UNCHANGED <<worldVars, visVars, entVars, moveVars, evtVars, tickVars, visEvent,
              engineSave, mechVars>>

\* new SectorEngine(config)
InitLoop ==
  /\ WorldIdle
  /\ VisIdle
  /\ EntIdle
  /\ MoveIdle
  /\ EvtIdle
  /\ TickIdle
  /\ visEvent = NoEvent
  /\ engineSave = NoSave
  /\ MechIdle
  /\ loop = [running |-> FALSE, pending |-> 0, lastTime |-> 0, accumulator |-> 0,
             lastFrame |-> 0, framed |-> FALSE, added |-> 0, updates |-> 0,
             accumulatorBefore |-> 0]

\* engine.start(), performance.now() reading now
LoopStart ==
  \E now \in Times :
    /\ loop.running \/ loop.pending < MaxPending
    /\ loop' = IF loop.running
                 THEN [loop EXCEPT !.framed = FALSE]
                 ELSE [loop EXCEPT !.running = TRUE, !.lastTime = now,
                                   !.accumulator = 0, !.pending = @ + 1,
                                   !.framed = FALSE]
    /\ OnlyLoop

\* engine.stop()
LoopStop ==
  /\ loop' = [loop EXCEPT !.running = FALSE, !.framed = FALSE]
  /\ OnlyLoop

\* A pending animation-frame callback runs _loop(time); the timestamps of
\* successive frames do not decrease.
LoopFrame ==
  \E time \in Times :
    /\ loop.pending > 0
    /\ time >= loop.lastFrame
    /\ loop' =
         IF ~loop.running
           THEN [loop EXCEPT !.pending = @ - 1, !.lastFrame = time, !.framed = FALSE]
           ELSE LET dt == loop_frameTime(time, loop.lastTime)
                    filled == loop.accumulator + dt
                    n == loop_updates(filled)
                IN [loop EXCEPT !.lastTime = time, !.lastFrame = time,
                                !.accumulator = filled - n * fixedTimestep,
                                !.framed = TRUE, !.added = dt, !.updates = n,
                                !.accumulatorBefore = loop.accumulator]
    /\ OnlyLoop

NextLoop ==
  \/ LoopStart
  \/ LoopStop
  \/ LoopFrame

SpecLoop == InitLoop /\ [][NextLoop]_vars

\* C21: the frame time a frame adds to the accumulator is at most
\* maxFrameTime, the frame runs at most floor((maxFrameTime + previous
\* accumulator) / fixedTimestep) fixed updates, and after every frame
\* 0 <= accumulator < fixedTimestep.
C21_ClampedFrameAndAccumulatorRange ==
  loop.framed =>
    /\ loop.added <= maxFrameTime
    /\ loop.updates <= (maxFrameTime + loop.accumulatorBefore) \div fixedTimestep
    /\ 0 <= loop.accumulator
    /\ loop.accumulator < fixedTimestep

\* C28: whatever the interleaving of start(), stop() and animation-frame
\* callbacks, at most one pending callback will run _loop and reschedule
\* itself: while the engine is running at most one callback is pending.
C28_OneLoopChain ==
  loop.running => loop.pending <= 1

\* The cells one ray is to contribute: those of its sample points, taken every
\* rayStep, up to and including the first one in a non-walkable cell, or up to
\* the view distance when there is none.
RayCells(x, y, rayAngle) ==
  LET dir == RayDir(rayAngle)
      count == CeilDiv(ViewDistance, rayStep)
      sx(k) == x + k * dir[1]
      sy(k) == y + k * dir[2]
      blocked == {k \in 1..count : ~isWalkable(world, heap, sx(k), sy(k))}
      last == IF blocked = {} THEN count
              ELSE CHOOSE k \in blocked : \A m \in blocked : k <= m
  IN {<<sx(k) \div Unit, sy(k) \div Unit>> : k \in 1..last}

\* The cells all rays of update(x, y, angle, fov) are to contribute.
SweepCells(x, y, angle, fov) ==
  LET rayCount == CeilDiv(fovRayCount * fov, FullCircle)
  IN UNION {RayCells(x, y, (angle - (fov \div 2)) + ((i * fov) \div rayCount)) :
              i \in 0..(rayCount - 1)}

\* C22: after Visibility.update, currentlyVisible is exactly the union over
\* the rays of the cells of each ray's sample points up to and including the
\* first sample in a non-walkable cell (or up to the view distance); nothing
\* of the previous update is carried over.
C22_VisibleIsUnionOfRayCells ==
  /\ (tick.pc = "idle" /\ tick.ticks = 0) =>
       currentlyVisible = SweepCells(ent[player].x, ent[player].y, 0, FullCircle)
  /\ tick.pc = "entities" =>
       currentlyVisible = SweepCells(ent[player].x, ent[player].y, tick.angle, configFov)

\* An update of a later tick saw a blocking cell and no longer sees a cell
\* that an earlier update saw.
C22_Witness ==
  /\ tick.pc = "entities"
  /\ \E c \in currentlyVisible : ~isWalkable(world, heap, c[1] * Unit, c[2] * Unit)
  /\ \E c \in discovered : c \notin currentlyVisible

\* ---------------------------------------------------------------------------
\* SpecVisEvents: update, setSector and discover over the level of SpecVis,
\* with a listener subscribed to 'discovered' that records what each update
\* hands to _emit.
\* ---------------------------------------------------------------------------

\* Visibility.update from `if (newlyDiscovered.length > 0)` on: what the
\* listeners of 'discovered' get.
update_emitted(newly) == [emitted |-> newly # {}, sectors |-> newly]

OnlyVisObserved ==
  UNCHANGED <<world2, snapshot, origView, stage, ownGrid, touched2, budget,
              entVars, moveVars, evtVars, tickVars, loop, engineSave, mechVars>>

\* visibility.update(x, y, angle, fov), observed
VisUpdateObserved ==
  \E v \in Viewpoints, angle \in ViewAngles, fov \in ViewFovs :
    LET visible == update_currentlyVisible(world, heap, v[1], v[2], angle, fov)
        newly == update_newlyDiscovered(world, heap, currentlyVisible, visible, discovered)
        event == update_emitted(newly)
    IN /\ currentlyVisible' = visible
       /\ discovered' = update_discovered(discovered, newly)
       /\ phase' = IF phase = "fresh" THEN "once" ELSE "updated"
       /\ visEvent' = [emitted |-> event.emitted,
                       sectors |-> IF event.emitted THEN event.sectors ELSE {},
                       before |-> discovered,
                       reported |-> visEvent.reported \cup
                                      (IF event.emitted THEN event.sectors ELSE {}),
                       again |-> event.emitted
                                 /\ event.sectors \cap visEvent.reported # {}]
       /\ UNCHANGED <<world, heap, totalWalkable>>
       /\ OnlyVisObserved

\* world.setSector(gx, gy, key); the listener keeps only what was reported.
VisSetSectorObserved ==
  \E c \in VisMutCells, key \in Keys :
    /\ heap' = setSectorHeap(world, heap, c[1], c[2], key)
    /\ phase' = IF phase = "fresh" THEN "fresh" ELSE "other"
    /\ visEvent' = [NoEvent EXCEPT !.reported = visEvent.reported]
    /\ UNCHANGED <<world, discovered, currentlyVisible, totalWalkable>>
    /\ OnlyVisObserved

\* visibility.discover(gx, gy); the listener keeps only what was reported.
VisDiscoverObserved ==
  \E c \in VisDiscoverCells :
    /\ discovered' = discovered \cup {c}
    /\ phase' = "other"
    /\ visEvent' = [NoEvent EXCEPT !.reported = visEvent.reported]
    /\ UNCHANGED <<world, heap, currentlyVisible, totalWalkable>>
    /\ OnlyVisObserved

NextVisEvents ==
  VisUpdateObserved \/ VisSetSectorObserved \/ VisDiscoverObserved

SpecVisEvents == InitVis /\ [][NextVisEvents]_vars

NinePoints(x, y, r) == {<<x + a * r, y + b * r>> : a \in {-1, 0, 1}, b \in {-1, 0, 1}}

discoveredWalkable(w, h, disc) ==
  Cardinality({key \in disc : isWalkable(w, h, key[1] * Unit, key[2] * Unit)})

\* Visibility.getDiscoveryCount()
getDiscoveryCount(w, h, disc, total) ==
  [discovered |-> discoveredWalkable(w, h, disc), total |-> total]

\* Visibility.getDiscoveryPercent(); Math.round rounds halves up.
getDiscoveryPercent(w, h, disc, total) ==
  IF total = 0 THEN 100
  ELSE (200 * discoveredWalkable(w, h, disc) + total) \div (2 * total)

\* C25: at any time, world mutations after the construction of the Visibility
\* included, getDiscoveryCount returns the number of discovered cells that
\* are walkable now and the number of walkable cells now in the grid, and
\* getDiscoveryPercent returns round(100 * discovered / total), within 0..100.
C25_DiscoveryCountsAreCurrent ==
  LET count == getDiscoveryCount(world, heap, discovered, totalWalkable)
      percent == getDiscoveryPercent(world, heap, discovered, totalWalkable)
      walkableNow == countWalkable(world, heap)
      discoveredNow == Cardinality({key \in discovered : WalkableCell(key)})
  IN /\ count.discovered = discoveredNow
     /\ count.total = walkableNow
     /\ percent \in 0..100
     /\ walkableNow # 0 =>
          percent = (200 * discoveredNow + walkableNow) \div (2 * walkableNow)

\* The entities the by-type view holds, and those the buckets hold.
InByType == UNION {TypeGet(byType, type) : type \in EntTypes}
InBuckets == UNION {SeqToSet(spatialHash[k]) : k \in DOMAIN spatialHash}

\* C26: after any sequence of adds (an add under an id already registered
\* included), removals and updates, the entities of the by-id registry are
\* those of the by-type sets and those of the buckets.
C26_IndexesAgree ==
  /\ Registered = InByType
  /\ Registered = InBuckets

\* C27: Movement.move from an occupiable start position returns an occupiable
\* position, whatever the displacement and whichever branch produced it.
C27_MovePreservesOccupiability ==
  (moveCall.called /\ moveCall.startOccupiable) =>
    MoverCanOccupy(moveCall.result.x, moveCall.result.y)

\* A blocked full move from an occupiable start ended away from the start and
\* away from the target.
C27_Witness ==
  /\ moveCall.called
  /\ moveCall.startOccupiable
  /\ ~MoverCanOccupy(moveCall.startX + moveCall.dx, moveCall.startY + moveCall.dy)
  /\ <<moveCall.result.x, moveCall.result.y>> # <<moveCall.startX, moveCall.startY>>

\* ---------------------------------------------------------------------------
\* SectorEngine.serialize / deserialize, between the ticks of SpecTick.
\* ---------------------------------------------------------------------------

MaxLoads == 1

\* Entity.serialize(): the fields of the model that it writes.
Entity_serialize(e) ==
  [id |-> e.id, type |-> e.type, x |-> e.x, y |-> e.y, active |-> e.active]

\* Entity.deserialize(data): Object.assign(this, data); this.removed = false
Entity_deserialize(e, data) ==
  [e EXCEPT !.id = data.id, !.type = data.type, !.x = data.x, !.y = data.y,
            !.active = data.active, !.removed = FALSE]

\* EntityManager.serialize()
EntityManager_serialize(st) ==
  [i \in 1..Len(st.entities) |-> Entity_serialize(st.ent[st.entities[i].obj])]

\* EntityManager.clear()
EntityManager_clear(st) ==
  [st EXCEPT !.entities = <<>>, !.byType = <<>>, !.spatialHash = <<>>]

\* The loop of EntityManager.deserialize from data[i] on: entity = new
\* Entity() is a new object; it is given the saved fields and added.
RECURSIVE deserialize_load(_, _, _)
deserialize_load(st, data, i) ==
  IF i > Len(data) THEN st
  ELSE LET made == Entity_deserialize(Entity_new(0, "entity", 0, 0), data[i])
           o == Len(st.ent) + 1
       IN deserialize_load(
            EntityManager_add([st EXCEPT !.ent = Append(@, made)], o), data, i + 1)

\* EntityManager.deserialize(data), without a factory
EntityManager_deserialize(st, data) ==
  deserialize_load(EntityManager_clear(st), data, 1)

OnlySave ==
  UNCHANGED <<world2, snapshot, origView, stage, ownGrid, touched2, budget,
              moveVars, evtVars, loop, visEvent, mechVars>>

\* data = engine.serialize()
EngineSerialize ==
  /\ tick.pc = "idle"
  /\ engineSave' = [exists |-> TRUE, loads |-> engineSave.loads,
                    loadedAt |-> engineSave.loadedAt,
                    world |-> World_serialize(world),
                    visibility |-> discovered,
                    player |-> [x |-> ent[player].x, y |-> ent[player].y,
                                angle |-> tick.angle],
                    entities |-> EntityManager_serialize(Manager)]
  /\ heap' = World_serializeHeap(world, heap)
  /\ UNCHANGED <<world, visVars, entVars, tickVars>>
  /\ OnlySave

\* engine.deserialize(data)
EngineDeserialize ==
  /\ tick.pc = "idle"
  /\ engineSave.exists
  /\ engineSave.loads < MaxLoads
  /\ world' = World_deserialize(world, engineSave.world, "w")
  /\ heap' = World_deserializeHeap(heap, engineSave.world, "w")
  /\ discovered' = engineSave.visibility
  /\ phase' = "other"
  /\ tick' = [tick EXCEPT !.angle = engineSave.player.angle]
  /\ SetManager(EntityManager_deserialize(
       [Manager EXCEPT !.ent[player].x = engineSave.player.x,
                       !.ent[player].y = engineSave.player.y],
       engineSave.entities))
  /\ nextId' = nextId + Len(engineSave.entities)
  /\ lastOp' = "other"
  /\ engineSave' = [engineSave EXCEPT !.loads = @ + 1, !.loadedAt = tick.ticks]
  /\ UNCHANGED <<currentlyVisible, totalWalkable, repositions>>
  /\ OnlySave

NextSave ==
  \/ TickInput
  \/ TickMove
  \/ TickVisibility
  \/ TickEntities
  \/ EngineSerialize
  \/ EngineDeserialize

SpecSave == InitTick /\ [][NextSave]_vars

\* C29: after engine.deserialize(engine.serialize()), the entity registered
\* under the player's id is engine.player itself, and it is in the bucket of
\* its restored position.
C29_PlayerStaysRegistered ==
  (engineSave.loads > 0 /\ tick.pc = "idle" /\ tick.ticks = engineSave.loadedAt) =>
    /\ MapValue(entities, ent[player].id) = player
    /\ BucketsOf(player) = {getCellKey(ent[player].x, ent[player].y)}

\* ---------------------------------------------------------------------------
\* Weapon: one weapon mounted on one mech. Times are in tenths of a second.
\* Of the mech, heat and the ammo count for the weapon are kept.
\* ---------------------------------------------------------------------------

maxHeat == 30

WeaponIds == {"MLAS", "UAC5", "SRM2", "LRM20"}

\* WEAPON_DATA[weaponId]: the fields fire reads.
WEAPON_DATA(weaponId) ==
  CASE weaponId = "MLAS" ->
         [type |-> "energy", heat |-> 3, cooldown |-> 5,
          requiresLock |-> FALSE, doubleFireChance |-> FALSE]
    [] weaponId = "UAC5" ->
         [type |-> "ballistic", heat |-> 1, cooldown |-> 4,
          requiresLock |-> FALSE, doubleFireChance |-> TRUE]
    [] weaponId = "SRM2" ->
         [type |-> "missile", heat |-> 2, cooldown |-> 8,
          requiresLock |-> FALSE, doubleFireChance |-> FALSE]
    [] weaponId = "LRM20" ->
         [type |-> "missile", heat |-> 6, cooldown |-> 15,
          requiresLock |-> TRUE, doubleFireChance |-> FALSE]

\* new Weapon(weaponId, location)
Weapon_new(weaponId) ==
  [exists |-> TRUE, id |-> weaponId, cooldownRemaining |-> 0, isJammed |-> FALSE,
   isFunctional |-> TRUE]

\* Weapon.canFire()
canFire(wp) == wp.isFunctional /\ ~wp.isJammed /\ wp.cooldownRemaining <= 0

\* Mech.addHeat(amount): the mech afterwards.
addHeat(m, amount) ==
  [m EXCEPT !.heat = Min((maxHeat * 3) \div 2, m.heat + amount)]

\* Weapon.fire(mech, target): the weapon and the mech afterwards and the
\* value returned. hasTarget stands for a truthy target, jamRoll for
\* Math.random() < 0.05.
fire(wp, m, hasTarget, jamRoll) ==
  LET data == WEAPON_DATA(wp.id)
      usesAmmo == data.type # "energy"
      spent == IF usesAmmo THEN [m EXCEPT !.ammo = @ - 1] ELSE m
  IN IF ~canFire(wp)
       THEN [weapon |-> wp, mech |-> m, result |-> [null |-> TRUE]]
     ELSE IF usesAmmo /\ (m.ammo = -1 \/ m.ammo <= 0)
       THEN [weapon |-> wp, mech |-> m,
             result |-> [null |-> FALSE, success |-> FALSE, reason |-> "no_ammo"]]
     ELSE IF data.requiresLock /\ ~hasTarget
       THEN [weapon |-> wp, mech |-> spent,
             result |-> [null |-> FALSE, success |-> FALSE, reason |-> "no_lock"]]
     ELSE [weapon |-> [wp EXCEPT !.cooldownRemaining = data.cooldown,
                                 !.isJammed = IF data.doubleFireChance /\ jamRoll
                                                THEN TRUE ELSE @],
           mech |-> addHeat(spent, data.heat),
           result |-> [null |-> FALSE, success |-> TRUE, reason |-> "fired"]]

\* mech.ammo[weaponId].count at the start; -1 for no entry.
AmmoCounts == {-1, 0, 2}
\* dt of Weapon.update
WeaponSteps == {4, 15}

OnlyWeapon ==
  UNCHANGED <<worldVars, visVars, entVars, moveVars, evtVars, tickVars, loop,
              visEvent, engineSave>>

InitWeapon ==
  /\ WorldIdle
  /\ VisIdle
  /\ EntIdle
  /\ MoveIdle
  /\ EvtIdle
  /\ TickIdle
  /\ loop = [running |-> FALSE, pending |-> 0]
  /\ visEvent = NoEvent
  /\ engineSave = NoSave
  /\ \E weaponId \in WeaponIds, count \in AmmoCounts :
       /\ weapon = Weapon_new(weaponId)
       /\ mech = [exists |-> TRUE, heat |-> 0, ammo |-> count]
  /\ fireCall = [called |-> FALSE]

\* weapon.fire(mech, target)
WeaponFire ==
  \E hasTarget \in BOOLEAN, jamRoll \in BOOLEAN :
    LET out == fire(weapon, mech, hasTarget, jamRoll) IN
      /\ weapon' = out.weapon
      /\ mech' = out.mech
      /\ fireCall' = [called |-> TRUE, hasTarget |-> hasTarget,
                      before |-> [ammo |-> mech.ammo, heat |-> mech.heat,
                                  cooldownRemaining |-> weapon.cooldownRemaining,
                                  isJammed |-> weapon.isJammed],
                      result |-> out.result]
      /\ OnlyWeapon

\* weapon.update(dt)
WeaponUpdate ==
  \E dt \in WeaponSteps :
    /\ weapon' = IF weapon.cooldownRemaining > 0
                   THEN [weapon EXCEPT !.cooldownRemaining = Max(0, @ - dt)]
                   ELSE weapon
    /\ fireCall' = [called |-> FALSE]
    /\ UNCHANGED mech
    /\ OnlyWeapon

\* weapon.unjam(); roll stands for Math.random() < 0.5
WeaponUnjam ==
  \E roll \in BOOLEAN :
    /\ weapon' = IF weapon.isJammed /\ roll
                   THEN [weapon EXCEPT !.isJammed = FALSE] ELSE weapon
    /\ fireCall' = [called |-> FALSE]
    /\ UNCHANGED mech
    /\ OnlyWeapon

NextWeapon ==
  \/ WeaponFire
  \/ WeaponUpdate
  \/ WeaponUnjam

SpecWeapon == InitWeapon /\ [][NextWeapon]_vars

\* C30: whenever fire returns null or a result with success = false, the
\* mech's ammo count for the weapon, the mech's heat and the weapon's
\* cooldownRemaining and isJammed are what they were before the call.
C30_FailedFireChangesNothing ==
  (fireCall.called /\ (fireCall.result.null \/ ~fireCall.result.success)) =>
    /\ mech.ammo = fireCall.before.ammo
    /\ mech.heat = fireCall.before.heat
    /\ weapon.cooldownRemaining = fireCall.before.cooldownRemaining
    /\ weapon.isJammed = fireCall.before.isJammed

====
